---------------------------- MODULE Spec2Model ----------------------------
(***************************************************************************)
(* State-machine model of SnAPI.AssetPipeline.                             *)
(*                                                                         *)
(* The module holds one sub-model per component.  Every component has its  *)
(* own variables, its own initial predicate and next-state relation, and   *)
(* a specification that runs that component while the other components    *)
(* stay parked in their constructed state:                                 *)
(*                                                                         *)
(*   SpecLoader / SpecLoaderFair   AsyncLoader (thread pool, queue, Wait)  *)
(*   SpecCache / SpecCacheSequential   AssetCache (handles, eviction)       *)
(*   SpecPipeline                  RuntimePipeline::ProcessSource          *)
(*   SpecRegistry                  PayloadRegistry (Register, Freeze, Find)*)
(*   SpecManager                   AssetManager (mounted packs, loads)     *)
(*   SpecLookup                    AssetManager and SourceAssetResolver    *)
(*                                 (lookups by name, mount points)         *)
(*   SpecPack                      AssetPackWriter and AssetPackReader     *)
(*   SpecToken                     CancellationToken (Cancel, CreateLinked)*)
(*   SpecFactory                   AssetManager (factories, type checks)   *)
(*   SpecReader                    AssetPackReader on a written pack       *)
(*   SpecRebuild                   IncrementalCache (rebuild detection)    *)
(*   SpecBuild                     AssetPipelineEngine batch builds        *)
(*   SpecOneWorker                 AsyncLoader with one worker, three loads*)
(***************************************************************************)
EXTENDS Integers, Sequences, FiniteSets, TLC

(***************************************************************************)
(* Bounds of the model.                                                    *)
(***************************************************************************)
MaxRequests == 2        \* LoadAsync calls made over the loader's lifetime
NumThreads == 2         \* worker threads of the loader (constructor argument)
NumCacheThreads == 2    \* client threads using the cache
NumCacheKeys == 2       \* distinct (AssetId, type) keys
MaxEntries == 2         \* Insert calls made over the cache's lifetime
MaxSizeBytes == 6       \* entries have SizeBytes MaxSizeBytes - 1 or MaxSizeBytes
MaxMemoryBytes == 7     \* AssetCacheConfig::MaxMemoryBytes
MinAgeBeforeEviction == 1   \* AssetCacheConfig::MinAgeBeforeEviction, seconds
MaxCacheTime == 1       \* seconds the clock runs for
NumPipelineThreads == 2 \* threads calling RuntimePipeline::ProcessSource
NumLogicalNames == 2    \* distinct logical names asked for
MaxProcessCalls == 3    \* ProcessSource calls made over the pipeline's lifetime
NumRegistryThreads == 2 \* threads using the payload registry
NumTypeIds == 2         \* distinct serializer TypeIds
NumTypeNames == 2       \* distinct serializer type names
NumPackPaths == 2       \* pack files on disk
NumAssets == 1          \* distinct asset ids looked up
MaxPriority == 1        \* mount priorities 0..MaxPriority
MaxReaders == 4         \* AssetPackReader objects made over the manager's lifetime
MaxWriteTime == 1       \* times a pack file is rewritten on disk
NumLoadThreads == 1     \* threads running LoadAnyById (async-loader workers)
NumPackAssets == 2      \* distinct assets handed to the pack writer
MaxPackCalls == 2       \* Write / AppendUpdate calls made on the pack path
MaxTokens == 3          \* CancellationToken states made (constructor and CreateLinked)
NumRootPaths == 1       \* source root directories
MaxRoots == 1           \* SourceMountConfig entries held by the resolver at a time
NumRuntimeTypes == 2    \* runtime types loads are asked for
NumCookedTypes == 2     \* cooked payload TypeIds of assets and factories
NumAuthored == 2        \* assets queued in the writer whose pack the reader reads
MaxEdits == 1           \* changes made to the pack file behind the reader's back
NumDepPaths == 1        \* dependency files of the asset whose rebuild is decided
NumFileHashes == 2      \* contents a dependency file may have, by hash
NumSources == 2         \* source files under the source roots of a batch build
NumContents == 1        \* contents a source file may have, the empty file apart
MaxItems == 2           \* items an importer yields from one source file
MaxModifications == 1   \* changes made to the source files between builds

(***************************************************************************)
(* AsyncLoader state (include/AsyncLoader.h, src/Runtime/AsyncLoader.cpp). *)
(***************************************************************************)
VARIABLES
    m_Queue,            \* ids of the LoadRequests in the priority queue
    Requests,           \* id -> [Priority, QueueTime] of every request made
    Token,              \* id -> the request's CancellationToken flag
    m_ActiveRequests,   \* ids that have a WaitableRequest in the map
    Promise,            \* ids whose promise has had set_value called
    Callback,           \* id -> sequence of the results handed to its callback
    m_Shutdown,         \* std::atomic<bool>
    m_NextRequestId,    \* std::atomic<uint64_t>, starts at 1
    m_Workers,          \* worker -> [pc, Req]: position in WorkerThread
    Completed,          \* ids in the order the workers were done with them
                        \* (m_CompletedCount is its length)
    SteadyClock,        \* last std::chrono::steady_clock::now() reading
    Waiter              \* a client thread inside Wait / WaitAll / Shutdown

loaderVars == <<m_Queue, Requests, Token, m_ActiveRequests, Promise, Callback,
                m_Shutdown, m_NextRequestId, m_Workers, Completed,
                SteadyClock, Waiter>>

(***************************************************************************)
(* AssetCache state (include/AssetCache.h, src/Runtime/AssetCache.cpp).    *)
(***************************************************************************)
VARIABLES
    m_Config,           \* AssetCacheConfig given to the constructor
    CacheEntries,       \* every CacheEntry made by Insert: entry -> fields
    m_Cache,            \* CacheKey -> entry, NoEntry when the key is absent
    m_LruList,          \* sequence of entries, front first
    m_MemoryUsage,      \* std::atomic<size_t>
    CacheThreads,       \* thread -> [pc, Entry, Handle, From, Result]
    CacheNow            \* std::chrono::steady_clock::now(), in seconds

cacheVars == <<m_Config, CacheEntries, m_Cache, m_LruList, m_MemoryUsage,
               CacheThreads, CacheNow>>

(***************************************************************************)
(* RuntimePipeline state (src/Runtime/RuntimePipeline.h, .cpp).            *)
(***************************************************************************)
VARIABLES
    m_CookedAssets,     \* logical name -> the cook whose asset is stored, or NotCooked
    m_InFlight,         \* logical names with a shared future in the map
    m_InFlightMutex,    \* the thread holding the mutex, or NoThread
    BrokenPromise,      \* names whose in-flight promise was destroyed unset
    PipelineThreads,    \* thread -> [pc, Name]: position in ProcessSource
    CookCount,          \* logical name -> completed import-and-cook runs
    Returned,           \* [Name, Kind, Cook] of every ProcessSource call that returned
    ProcessCalls,       \* ProcessSource calls made so far
    bDirty,             \* logical name -> CookedAsset::bDirty
    RuntimePack,        \* the file at OutputPath: [Exists, Readable, Assets]
    SaveReturn,         \* the SaveAll that has just returned: [Call, Error, Dirty, Cooked]
    Pipeline            \* AssetManager::Impl::Pipeline is set (the manager has a RuntimePipeline)

pipelineVars == <<m_CookedAssets, m_InFlight, m_InFlightMutex, BrokenPromise,
                  PipelineThreads, CookCount, Returned, ProcessCalls, bDirty, RuntimePack,
                  SaveReturn, Pipeline>>

(***************************************************************************)
(* PayloadRegistry state (src/Core/PayloadRegistry.cpp, Impl).             *)
(***************************************************************************)
VARIABLES
    bFrozen,            \* std::atomic<bool>
    Mutex,              \* std::shared_mutex: [Writer, Readers]
    SerializersByType,  \* TypeId -> serializer, or NoSerializer
    SerializersByName,  \* type name -> serializer, or NoSerializer
    AllSerializers,     \* sequence of serializers in registration order
    RegistryThreads,    \* thread -> [pc, Serializer, Id, bSeenFrozen]
    FrozenMaps,         \* the three containers as they were when Freeze returned
    RegisterReturn,     \* the Register that has just returned: [Call, Serializer, Thrown,
                        \* Before]
    IsFrozenReturn,     \* the result of the IsFrozen() that has just returned
    bSeenFrozen,        \* an IsFrozen() call has returned true
    FrozenFound         \* TypeId -> the results of the Find calls made after an
                        \* IsFrozen() call returned true

registryMaps == <<SerializersByType, SerializersByName, AllSerializers>>

registryVars == <<bFrozen, Mutex, SerializersByType, SerializersByName, AllSerializers,
                  RegistryThreads, FrozenMaps, RegisterReturn, IsFrozenReturn, bSeenFrozen,
                  FrozenFound>>

(***************************************************************************)
(* AssetManager state: the mounted packs (src/Runtime/AssetManager.cpp,    *)
(* AssetManager::Impl) and the pack files they were opened from.           *)
(***************************************************************************)
VARIABLES
    Packs,              \* std::vector<MountedPack>: [Path, Priority, MountPoint, Reader, Assets,
                        \* LastModified]
    bHotReloadEnabled,  \* Impl::bHotReloadEnabled
    PackFiles,          \* path -> asset ids in the pack file
    LastWriteTime,      \* path -> std::filesystem::last_write_time
    NextReader,         \* the next AssetPackReader object to be made
    LoadThreads,        \* thread -> [pc, Id, Reader]: position in LoadAnyById
    m_Roots,            \* SourceAssetResolver::m_Roots: [RootPath, Priority, MountPoint]
    Lookup,             \* the lookup by name that has just returned, and its result
    Unreadable,         \* the paths whose file AssetPackReader::Open rejects
    HotReloadCallback,  \* Impl::HotReloadCallback is set
    HotReload,          \* the CheckForChanges that has just returned: [Call, Before,
                        \* Callback, ReloadedAssets]
    MountReturn         \* the MountPack that has just returned: [Call, Path, Error, Before]

managerVars == <<Packs, bHotReloadEnabled, PackFiles, LastWriteTime, NextReader, LoadThreads,
                 m_Roots, Lookup, Unreadable, HotReloadCallback, HotReload,
                 MountReturn>>

(***************************************************************************)
(* Pack writer state (src/Pack/AssetPackWriter.cpp) and the two files a    *)
(* call works on.  A file is a sequence of cells: one cell for each header *)
(* structure, one for each string, payload and index entry.  Offsets and   *)
(* sizes count cells.                                                      *)
(***************************************************************************)
VARIABLES
    WriterAssets,       \* AssetPackWriter::Impl::Assets: the asset ids queued by AddAsset
    OutputFile,         \* the file at the pack path: [Exists, Cells]
    TempFile,           \* the file at the pack path + ".tmp": [Exists, Cells]
    WriterCall,         \* the running Write / AppendUpdate call: its stream and locals
    Before,             \* what the running (or last) call began with: [Call, Target, Assets, File]
    History             \* the calls that have ended, oldest first

packVars == <<WriterAssets, OutputFile, TempFile, WriterCall, Before, History>>

(***************************************************************************)
(* CancellationToken state (include/AsyncLoader.h).  A token is named by   *)
(* the shared flag it points to; copies of a token share the flag.         *)
(***************************************************************************)
VARIABLES
    m_Cancelled,        \* token -> the std::atomic<bool> behind its shared_ptr
    LinkedFrom,         \* token -> <<A, B>> given to CreateLinked, <<>> for a plain token
    IsCancelledCall     \* the IsCancelled call that has just returned: [Token, Result]

tokenVars == <<m_Cancelled, LinkedFrom, IsCancelledCall>>

(***************************************************************************)
(* AssetManager factories (src/Runtime/AssetManager.cpp, Impl) and the     *)
(* load that has just returned.                                            *)
(***************************************************************************)
VARIABLES
    FactoriesByRuntimeType, \* runtime type -> GetCookedPayloadType() of its factory, or NoFactory
    LoadReturn          \* the load that has just returned: [Call, RuntimeType, Error, Invoked]

factoryVars == <<FactoriesByRuntimeType, LoadReturn>>

(***************************************************************************)
(* AssetPackReader state (src/Pack/AssetPackReader.cpp, Impl), the pack    *)
(* file it reads, field by field, and the writer that wrote it.            *)
(***************************************************************************)
VARIABLES
    Authored,           \* AssetPackWriter::Impl::Assets: the AssetPackEntry records queued
    Compression,        \* AssetPackWriter::Impl::Compression
    Disk,               \* the file at the pack's path: [Exists, Cells]
    Edits,              \* changes made to the file since it was written
    m_Impl,             \* AssetPackReader::Impl: [bOpen, bFileOpen, ValidatedFileSize,
                        \* StringTable, IndexEntries, BulkEntries, AssetIdToIndex]
    ReadReturn          \* the reader call that has just returned: [Call, Id, BulkIndex,
                        \* Error, Bytes, Info]

readerVars == <<Authored, Compression, Disk, Edits, m_Impl, ReadReturn>>

(***************************************************************************)
(* IncrementalCache state (src/Pipeline/IncrementalCache.cpp) for one      *)
(* asset, and its dependency files.                                        *)
(***************************************************************************)
VARIABLES
    CacheRow,           \* the asset's row of the cache table, as Get(Id) returns it
    DependencyRows,     \* the asset's rows of the dependencies table: path -> recorded hash
    DiskFiles,          \* the dependency files on disk: path -> hash of the contents
    RebuildReturn       \* the rebuild check that has just returned: [Call, Entry, Result]

rebuildVars == <<CacheRow, DependencyRows, DiskFiles, RebuildReturn>>

(***************************************************************************)
(* AssetPipelineEngine state (src/Pipeline/AssetPipeline.cpp) and the      *)
(* files a batch build works on.                                           *)
(***************************************************************************)
VARIABLES
    SourceTree,         \* the files under the source roots: Uri -> [Content, Outcome]
    m_BuildCache,       \* Impl::Cache (IncrementalCache::m_Cache): Uri -> hash, or NotCached
    OutputPack,         \* the file at Config.OutputPackPath: [Exists, Readable, Assets]
    BuildReturn,        \* the build that has just returned: its BuildResult and what it did
    LastBuild,          \* the last build made: [Call, Files (the contents), Counts]
    BuiltHash,          \* Uri -> the hash the source had when a build last cooked it
    Modifications       \* changes made to the source files so far

buildVars == <<SourceTree, m_BuildCache, OutputPack, BuildReturn, LastBuild, BuiltHash,
               Modifications>>

vars == <<loaderVars, cacheVars, pipelineVars, registryVars, managerVars, packVars, tokenVars, factoryVars, readerVars, rebuildVars, buildVars>>

(***************************************************************************)
(* What a step of one component leaves alone: the other components.        *)
(***************************************************************************)
notLoaderVars == <<cacheVars, pipelineVars, registryVars, managerVars, packVars, tokenVars, factoryVars, readerVars, rebuildVars, buildVars>>
notCacheVars == <<loaderVars, pipelineVars, registryVars, managerVars, packVars, tokenVars, factoryVars, readerVars, rebuildVars, buildVars>>
notPipelineVars == <<loaderVars, cacheVars, registryVars, managerVars, packVars, tokenVars, factoryVars, readerVars, rebuildVars, buildVars>>
notRegistryVars == <<loaderVars, cacheVars, pipelineVars, managerVars, packVars, tokenVars, factoryVars, readerVars, rebuildVars, buildVars>>
notManagerVars == <<loaderVars, cacheVars, pipelineVars, registryVars, packVars, tokenVars, factoryVars, readerVars, rebuildVars, buildVars>>
notPackVars == <<loaderVars, cacheVars, pipelineVars, registryVars, managerVars, tokenVars, factoryVars, readerVars, rebuildVars, buildVars>>
notTokenVars == <<loaderVars, cacheVars, pipelineVars, registryVars, managerVars, packVars, factoryVars, readerVars, rebuildVars, buildVars>>
notFactoryVars == <<loaderVars, cacheVars, pipelineVars, registryVars, managerVars, packVars, tokenVars, readerVars, rebuildVars, buildVars>>
notReaderVars == <<loaderVars, cacheVars, pipelineVars, registryVars, managerVars, packVars, tokenVars, factoryVars, rebuildVars, buildVars>>
notRebuildVars == <<loaderVars, cacheVars, pipelineVars, registryVars, managerVars, packVars, tokenVars, factoryVars, readerVars, buildVars>>
notBuildVars == <<loaderVars, cacheVars, pipelineVars, registryVars, managerVars, packVars, tokenVars, factoryVars, readerVars, rebuildVars>>

(***************************************************************************)
(* ELoadPriority: Low = 0, Normal = 1, High = 2, Critical = 3.             *)
(***************************************************************************)
Low == 0
Normal == 1
High == 2
Critical == 3
ELoadPriority == {Low, Normal, High, Critical}

WorkerIds == 1..NumThreads
ClientThread == 0       \* a thread of the client, as opposed to a worker
RequestIds == 1..MaxRequests
NoRequest == 0

(***************************************************************************)
(* LoadRequest::operator<: a < b iff a has the lower priority, or the same *)
(* priority and the later queue time.                                      *)
(***************************************************************************)
RequestLess(a, b) ==
    IF Requests[a].Priority # Requests[b].Priority
    THEN Requests[a].Priority < Requests[b].Priority
    ELSE Requests[a].QueueTime > Requests[b].QueueTime

\* A queue that gives out its requests in any order.
QueueAny == m_Queue

(***************************************************************************)
(* std::priority_queue::top(): a greatest element under operator<.  When   *)
(* two requests compare equivalent either of them may be on top.           *)
(***************************************************************************)
QueueTop == {r \in m_Queue : \A o \in m_Queue : ~RequestLess(r, o)}

(***************************************************************************)
(* The type-erased callback wrapper built by LoadAsync<T>, called with the  *)
(* raw asset pointer (TRUE: non-null) and the error string: the            *)
(* AsyncLoadResult<T> it hands to the user's callback, and the thread it   *)
(* runs on.                                                                *)
(***************************************************************************)
ReqCallback(RawPtr, Error, Thread) ==
    [Asset |-> RawPtr, Error |-> Error, bCancelled |-> (Error = "Cancelled"), Thread |-> Thread]

AsyncLoader_AsyncLoader(Threads) ==
    /\ m_Queue = {}
    /\ Requests = <<>>
    /\ Token = <<>>
    /\ m_ActiveRequests = {}
    /\ Promise = {}
    /\ Callback = <<>>
    /\ m_Shutdown = FALSE
    /\ m_NextRequestId = 1
    /\ m_Workers = [w \in 1..Threads |-> [pc |-> "wait", Req |-> NoRequest]]
    /\ Completed = <<>>
    /\ SteadyClock = 0
    /\ Waiter = [pc |-> "idle", Id |-> NoRequest]

LoaderInit == AsyncLoader_AsyncLoader(NumThreads)

(***************************************************************************)
(* AsyncLoader::LoadAsync<T>: takes the next request id, stamps the        *)
(* request with the clock, registers its promise in m_ActiveRequests and   *)
(* pushes it on the queue.  steady_clock never runs backwards: the reading *)
(* is later than the previous request's, or equal to it when both calls    *)
(* fall into one clock tick.  A token that is already cancelled when it is *)
(* passed in is the state reached by Cancel right after LoadAsync.         *)
(* Clients stop calling LoadAsync once they have called Shutdown.          *)
(***************************************************************************)
LoadAsync(Priority, Now) ==
    /\ ~m_Shutdown
    /\ \/ Now = SteadyClock + 1
       \/ Now = SteadyClock /\ m_NextRequestId > 1
    /\ LET Id == m_NextRequestId IN
        /\ m_NextRequestId' = m_NextRequestId + 1
        /\ SteadyClock' = Now
        /\ Requests' = Requests @@ (Id :> [Priority |-> Priority, QueueTime |-> Now])
        /\ Token' = Token @@ (Id :> FALSE)
        /\ Callback' = Callback @@ (Id :> <<>>)
        /\ m_ActiveRequests' = m_ActiveRequests \cup {Id}
        /\ m_Queue' = m_Queue \cup {Id}
    /\ UNCHANGED <<Promise, m_Shutdown, m_Workers, Waiter, Completed>>
    /\ UNCHANGED notLoaderVars

(***************************************************************************)
(* AsyncLoadHandle::Cancel / CancellationToken::Cancel on a request's      *)
(* token, at any time after the request was made.                          *)
(***************************************************************************)
Cancel(Id) ==
    /\ Id \in DOMAIN Token
    /\ ~Token[Id]
    /\ Token' = [Token EXCEPT ![Id] = TRUE]
    /\ UNCHANGED <<m_Queue, Requests, m_ActiveRequests, Promise, Callback, m_Shutdown,
                   m_NextRequestId, m_Workers, SteadyClock, Waiter, Completed>>
    /\ UNCHANGED notLoaderVars

(***************************************************************************)
(* WorkerThread, first block: under m_QueueMutex, wait until shutdown or   *)
(* a non-empty queue; leave when shut down with an empty queue; otherwise  *)
(* move the top request out of the queue.                                  *)
(***************************************************************************)
WorkerDequeue(w) ==
    /\ m_Workers[w].pc = "wait"
    /\ m_Queue # {}
    /\ \E r \in QueueTop :
        /\ m_Queue' = m_Queue \ {r}
        /\ m_Workers' = [m_Workers EXCEPT ![w] = [pc |-> "precheck", Req |-> r]]
    /\ UNCHANGED <<Requests, Token, m_ActiveRequests, Promise, Callback, m_Shutdown,
                   m_NextRequestId, SteadyClock, Waiter, Completed>>
    /\ UNCHANGED notLoaderVars

WorkerExit(w) ==
    /\ m_Workers[w].pc = "wait"
    /\ m_Shutdown
    /\ m_Queue = {}
    /\ m_Workers' = [m_Workers EXCEPT ![w].pc = "exited"]
    /\ UNCHANGED <<m_Queue, Requests, Token, m_ActiveRequests, Promise, Callback, m_Shutdown,
                   m_NextRequestId, SteadyClock, Waiter, Completed>>
    /\ UNCHANGED notLoaderVars

(***************************************************************************)
(* WorkerThread, "Check for cancellation before loading": a cancelled      *)
(* request gets its callback with "Cancelled", the completed count goes    *)
(* up and the loop continues with the next request.                        *)
(***************************************************************************)
\* The cancellation branch falling through to the load after its callback.
WorkerPreCheckNoContinue(w) ==
    /\ m_Workers[w].pc = "precheck"
    /\ LET r == m_Workers[w].Req IN
        /\ Callback' = IF Token[r]
                       THEN [Callback EXCEPT ![r] = Append(@, ReqCallback(FALSE, "Cancelled", w))]
                       ELSE Callback
        /\ m_Workers' = [m_Workers EXCEPT ![w].pc = "load"]
    /\ UNCHANGED <<m_Queue, Requests, Token, m_ActiveRequests, Promise, m_Shutdown,
                   m_NextRequestId, SteadyClock, Waiter, Completed>>
    /\ UNCHANGED notLoaderVars

WorkerPreCheck(w) ==
    /\ m_Workers[w].pc = "precheck"
    /\ LET r == m_Workers[w].Req IN
        IF Token[r]
        THEN /\ Callback' = [Callback EXCEPT ![r] = Append(@, ReqCallback(FALSE, "Cancelled", w))]
             /\ Completed' = Append(Completed, r)
             /\ m_Workers' = [m_Workers EXCEPT ![w] = [pc |-> "wait", Req |-> NoRequest]]
        ELSE /\ m_Workers' = [m_Workers EXCEPT ![w].pc = "load"]
             /\ UNCHANGED <<Callback, Completed>>
    /\ UNCHANGED <<m_Queue, Requests, Token, m_ActiveRequests, Promise, m_Shutdown,
                   m_NextRequestId, SteadyClock, Waiter>>
    /\ UNCHANGED notLoaderVars

(***************************************************************************)
(* WorkerThread, "Perform the load" to the end of the loop body:           *)
(* LoadAnyByName / LoadAnyById returns an asset or an error (an exception  *)
(* is turned into an error); a token cancelled by the time the load is     *)
(* over turns the result into "Cancelled"; the callback is invoked; the    *)
(* request's promise is fulfilled and its entry erased from                *)
(* m_ActiveRequests.                                                       *)
(***************************************************************************)
\* The end of the loop body without the second cancellation check.
WorkerFinishUnchecked(w) ==
    /\ m_Workers[w].pc = "load"
    /\ \E Outcome \in {"Asset", "Error"} :
        LET r == m_Workers[w].Req
            ResultPtr == (Outcome = "Asset")
            Error == IF Outcome = "Asset" THEN "" ELSE "Error"
        IN
        /\ Callback' = [Callback EXCEPT ![r] = Append(@, ReqCallback(ResultPtr, Error, w))]
        /\ IF r \in m_ActiveRequests
           THEN /\ Promise' = Promise \cup {r}
                /\ m_ActiveRequests' = m_ActiveRequests \ {r}
           ELSE UNCHANGED <<Promise, m_ActiveRequests>>
        /\ Completed' = Append(Completed, r)
        /\ m_Workers' = [m_Workers EXCEPT ![w] = [pc |-> "wait", Req |-> NoRequest]]
    /\ UNCHANGED <<m_Queue, Requests, Token, m_Shutdown, m_NextRequestId, SteadyClock, Waiter>>
    /\ UNCHANGED notLoaderVars

WorkerFinish(w) ==
    /\ m_Workers[w].pc = "load"
    /\ \E Outcome \in {"Asset", "Error"} :
        LET r == m_Workers[w].Req
            ResultPtr == IF Token[r] THEN FALSE ELSE (Outcome = "Asset")
            Error == IF Token[r] THEN "Cancelled"
                     ELSE IF Outcome = "Asset" THEN "" ELSE "Error"
        IN
        /\ Callback' = [Callback EXCEPT ![r] = Append(@, ReqCallback(ResultPtr, Error, w))]
        /\ IF r \in m_ActiveRequests
           THEN /\ Promise' = Promise \cup {r}
                /\ m_ActiveRequests' = m_ActiveRequests \ {r}
           ELSE UNCHANGED <<Promise, m_ActiveRequests>>
        /\ Completed' = Append(Completed, r)
        /\ m_Workers' = [m_Workers EXCEPT ![w] = [pc |-> "wait", Req |-> NoRequest]]
    /\ UNCHANGED <<m_Queue, Requests, Token, m_Shutdown, m_NextRequestId, SteadyClock, Waiter>>
    /\ UNCHANGED notLoaderVars

WorkerThread(w) ==
    \/ WorkerDequeue(w)
    \/ WorkerExit(w)
    \/ WorkerPreCheck(w)
    \/ WorkerFinish(w)

(***************************************************************************)
(* AsyncLoader::CancelAll: under m_QueueMutex, cancel the token of every   *)
(* queued request, invoke its callback with "Cancelled" and pop it.        *)
(***************************************************************************)
\* CancelAll popping the queued requests without a word to their callbacks.
CancelAllSilently ==
    /\ Token' = [Id \in DOMAIN Token |-> IF Id \in m_Queue THEN TRUE ELSE Token[Id]]
    /\ m_Queue' = {}
    /\ UNCHANGED <<Requests, m_ActiveRequests, Promise, Callback, m_Shutdown, m_NextRequestId,
                   m_Workers, SteadyClock, Waiter, Completed>>
    /\ UNCHANGED notLoaderVars

CancelAll ==
    /\ Token' = [Id \in DOMAIN Token |-> IF Id \in m_Queue THEN TRUE ELSE Token[Id]]
    /\ Callback' = [Id \in DOMAIN Callback |->
                        IF Id \in m_Queue
                        THEN Append(Callback[Id], ReqCallback(FALSE, "Cancelled", ClientThread))
                        ELSE Callback[Id]]
    /\ m_Queue' = {}
    /\ UNCHANGED <<Requests, m_ActiveRequests, Promise, m_Shutdown, m_NextRequestId,
                   m_Workers, SteadyClock, Waiter, Completed>>
    /\ UNCHANGED notLoaderVars

(***************************************************************************)
(* AsyncLoader::Wait: an invalid handle or a request no longer in          *)
(* m_ActiveRequests returns at once; otherwise the caller copies the       *)
(* shared_future and blocks on it until the promise is fulfilled.          *)
(***************************************************************************)
WaitCall(Id) ==
    /\ Waiter.pc = "idle"
    /\ Id \in DOMAIN Requests
    /\ Waiter' = IF Id \in m_ActiveRequests
                 THEN [pc |-> "Wait", Id |-> Id]
                 ELSE [pc |-> "idle", Id |-> NoRequest]
    /\ UNCHANGED <<m_Queue, Requests, Token, m_ActiveRequests, Promise, Callback, m_Shutdown,
                   m_NextRequestId, m_Workers, SteadyClock, Completed>>
    /\ UNCHANGED notLoaderVars

WaitReturn ==
    /\ Waiter.pc = "Wait"
    /\ Waiter.Id \in Promise
    /\ Waiter' = [pc |-> "idle", Id |-> NoRequest]
    /\ UNCHANGED <<m_Queue, Requests, Token, m_ActiveRequests, Promise, Callback, m_Shutdown,
                   m_NextRequestId, m_Workers, SteadyClock, Completed>>
    /\ UNCHANGED notLoaderVars

(***************************************************************************)
(* AsyncLoader::WaitAll: poll, every millisecond, until the queue and      *)
(* m_ActiveRequests are both empty.                                        *)
(***************************************************************************)
WaitAllCall ==
    /\ Waiter.pc = "idle"
    /\ Waiter' = [pc |-> "WaitAll", Id |-> NoRequest]
    /\ UNCHANGED <<m_Queue, Requests, Token, m_ActiveRequests, Promise, Callback, m_Shutdown,
                   m_NextRequestId, m_Workers, SteadyClock, Completed>>
    /\ UNCHANGED notLoaderVars

WaitAllReturn ==
    /\ Waiter.pc = "WaitAll"
    /\ m_Queue = {}
    /\ m_ActiveRequests = {}
    /\ Waiter' = [pc |-> "idle", Id |-> NoRequest]
    /\ UNCHANGED <<m_Queue, Requests, Token, m_ActiveRequests, Promise, Callback, m_Shutdown,
                   m_NextRequestId, m_Workers, SteadyClock, Completed>>
    /\ UNCHANGED notLoaderVars

(***************************************************************************)
(* AsyncLoader::Shutdown: set m_Shutdown, wake the workers, join them.     *)
(***************************************************************************)
Shutdown ==
    /\ Waiter.pc = "idle"
    /\ m_Shutdown' = TRUE
    /\ Waiter' = [pc |-> "Shutdown", Id |-> NoRequest]
    /\ UNCHANGED <<m_Queue, Requests, Token, m_ActiveRequests, Promise, Callback,
                   m_NextRequestId, m_Workers, SteadyClock, Completed>>
    /\ UNCHANGED notLoaderVars

ShutdownReturn ==
    /\ Waiter.pc = "Shutdown"
    /\ \A w \in DOMAIN m_Workers : m_Workers[w].pc = "exited"
    /\ Waiter' = [pc |-> "idle", Id |-> NoRequest]
    /\ UNCHANGED <<m_Queue, Requests, Token, m_ActiveRequests, Promise, Callback, m_Shutdown,
                   m_NextRequestId, m_Workers, SteadyClock, Completed>>
    /\ UNCHANGED notLoaderVars

(***************************************************************************)
(* A loader with one worker whose client makes three loads, of priority    *)
(* Low, Normal and Critical in that order, and nothing else.               *)
(***************************************************************************)
PriorityOrder == <<Low, Normal, Critical>>

NextLoadAsync(Now) ==
    /\ m_NextRequestId <= Len(PriorityOrder)
    /\ LoadAsync(PriorityOrder[m_NextRequestId], Now)

OneWorkerNext ==
    \/ \E Now \in 0..Len(PriorityOrder) : NextLoadAsync(Now)
    \/ WorkerDequeue(1)
    \/ WorkerPreCheck(1)
    \/ WorkerFinish(1)

LoaderNext ==
    \/ \E p \in ELoadPriority, t \in 0..MaxRequests :
          m_NextRequestId <= MaxRequests /\ LoadAsync(p, t)
    \/ \E Id \in RequestIds : Cancel(Id)
    \/ \E w \in WorkerIds : WorkerThread(w)
    \/ CancelAll
    \/ \E Id \in RequestIds : WaitCall(Id)
    \/ WaitReturn
    \/ WaitAllCall
    \/ WaitAllReturn
    \/ Shutdown
    \/ ShutdownReturn

(***************************************************************************)
(* AssetCache state (include/AssetCache.h, src/Runtime/AssetCache.cpp).    *)
(* Client threads call Get, Insert, Remove, ClearUnreferenced and Evict    *)
(* and hold the AssetHandle a Get or an Insert returned until they release *)
(* it.  A step is the code run under one acquisition of m_CacheMutex, or   *)
(* the code between two acquisitions.                                      *)
(***************************************************************************)
CacheThreadIds == 1..NumCacheThreads
CacheKeys == 1..NumCacheKeys
EntryIds == 1..MaxEntries
NoEntry == 0
\* The sizes inserted: one between the eviction target and the threshold, and
\* one at the threshold.
EntrySizes == (MaxSizeBytes - 1)..MaxSizeBytes

IdleThread == [pc |-> "idle", Entry |-> NoEntry, Handle |-> NoEntry, From |-> "none", Result |-> FALSE]

(***************************************************************************)
(* AssetCache::AssetCache: an EvictionThresholdBytes of 0 becomes 90% of   *)
(* MaxMemoryBytes.  Evict frees down to 70% of MaxMemoryBytes.             *)
(***************************************************************************)
EvictionThresholdBytes == (MaxMemoryBytes * 9) \div 10
TargetUsage == (MaxMemoryBytes * 7) \div 10

CacheInit ==
    /\ m_Config \in [bEvictOnlyUnreferenced : BOOLEAN]
    /\ CacheEntries = <<>>
    /\ m_Cache = [k \in CacheKeys |-> NoEntry]
    /\ m_LruList = <<>>
    /\ m_MemoryUsage = 0
    /\ CacheThreads = [t \in CacheThreadIds |-> IdleThread]
    /\ CacheNow = 0

(***************************************************************************)
(* Sum of SizeBytes over a set of entries.                                 *)
(***************************************************************************)
RECURSIVE SumSizeBytes(_)
SumSizeBytes(S) ==
    IF S = {} THEN 0
    ELSE LET e == CHOOSE x \in S : TRUE IN CacheEntries[e].SizeBytes + SumSizeBytes(S \ {e})

(***************************************************************************)
(* The list with entries erased (m_LruList.erase through m_LruMap).        *)
(***************************************************************************)
LruErase(List, Gone) == SelectSeq(List, LAMBDA e : e \notin Gone)

(***************************************************************************)
(* AssetCache::Evict, the loop: walk m_LruList from the back while usage   *)
(* is above the target; skip a referenced entry when only unreferenced     *)
(* ones may go; stop at the first entry younger than the minimum age;      *)
(* evict anything else.  i is the position looked at next (0: the walk     *)
(* has passed begin()).  Returns the usage and the evicted entries.        *)
(***************************************************************************)
\* The walk of Evict without the age test: whatever is not skipped is evicted.
RECURSIVE EvictScanAnyAge(_, _, _)
EvictScanAnyAge(i, Usage, Evicted) ==
    IF ~(Usage > TargetUsage) \/ i = 0
    THEN [Usage |-> Usage, Evicted |-> Evicted]
    ELSE LET e == m_LruList[i] IN
         IF m_Config.bEvictOnlyUnreferenced /\ CacheEntries[e].RefCount > 0
         THEN EvictScanAnyAge(i - 1, Usage, Evicted)
         ELSE EvictScanAnyAge(i - 1, Usage - CacheEntries[e].SizeBytes, Evicted \cup {e})

RECURSIVE EvictScan(_, _, _)
EvictScan(i, Usage, Evicted) ==
    IF ~(Usage > TargetUsage) \/ i = 0
    THEN [Usage |-> Usage, Evicted |-> Evicted]
    ELSE LET e == m_LruList[i] IN
         IF m_Config.bEvictOnlyUnreferenced /\ CacheEntries[e].RefCount > 0
         THEN EvictScan(i - 1, Usage, Evicted)
         ELSE IF CacheNow - CacheEntries[e].LastAccess < MinAgeBeforeEviction
         THEN [Usage |-> Usage, Evicted |-> Evicted]
         ELSE EvictScan(i - 1, Usage - CacheEntries[e].SizeBytes, Evicted \cup {e})

(***************************************************************************)
(* The position in m_LruList at which that loop takes the break of the age *)
(* test ("Stop evicting - remaining entries toward the front are newer"),  *)
(* or 0 when it ends otherwise.                                            *)
(***************************************************************************)
RECURSIVE EvictBreak(_, _)
EvictBreak(i, Usage) ==
    IF ~(Usage > TargetUsage) \/ i = 0
    THEN 0
    ELSE LET e == m_LruList[i] IN
         IF m_Config.bEvictOnlyUnreferenced /\ CacheEntries[e].RefCount > 0
         THEN EvictBreak(i - 1, Usage)
         ELSE IF CacheNow - CacheEntries[e].LastAccess < MinAgeBeforeEviction
         THEN i
         ELSE EvictBreak(i - 1, Usage - CacheEntries[e].SizeBytes)

(***************************************************************************)
(* AssetCache::Evict as a whole: nothing below the threshold, else the     *)
(* loop under the unique lock.  Given the entry table to update, so that   *)
(* InsertEntry can run it on the table that already has the new entry.     *)
(***************************************************************************)
EvictResult(Table) ==
    IF m_MemoryUsage < EvictionThresholdBytes
    THEN [Entries |-> Table, Cache |-> m_Cache, List |-> m_LruList, Usage |-> m_MemoryUsage]
    ELSE LET r == EvictScan(Len(m_LruList), m_MemoryUsage, {}) IN
         [Entries |-> [e \in DOMAIN Table |->
                          IF e \in r.Evicted
                          THEN [Table[e] EXCEPT !.RemovedBy = "Evict"]
                          ELSE Table[e]],
          Cache   |-> [k \in CacheKeys |->
                          IF m_Cache[k] \in r.Evicted THEN NoEntry ELSE m_Cache[k]],
          List    |-> LruErase(m_LruList, r.Evicted),
          Usage   |-> r.Usage]

(***************************************************************************)
(* AssetCache::Get<T>, first half: GetEntry looks the key up under the     *)
(* shared lock and returns the shared_ptr, or nullptr, in which case Get   *)
(* returns an empty handle.                                                *)
(***************************************************************************)
GetEntry(t, k) ==
    /\ CacheThreads[t].pc = "idle"
    /\ CacheThreads[t].Handle = NoEntry
    /\ CacheThreads' = [CacheThreads EXCEPT ![t] =
                           IF m_Cache[k] # NoEntry
                           THEN [@ EXCEPT !.pc = "Get", !.Entry = m_Cache[k]]
                           ELSE @]
    /\ UNCHANGED <<m_Config, CacheEntries, m_Cache, m_LruList, m_MemoryUsage, CacheNow>>
    /\ UNCHANGED notCacheVars

(***************************************************************************)
(* AssetCache::Get<T>, second half, outside the lock: stamp LastAccess and *)
(* construct the AssetHandle, which increments RefCount.                   *)
(***************************************************************************)
GetHandle(t) ==
    /\ CacheThreads[t].pc = "Get"
    /\ LET e == CacheThreads[t].Entry IN
        /\ CacheEntries' = [CacheEntries EXCEPT ![e].LastAccess = CacheNow,
                                                ![e].RefCount = @ + 1]
        /\ CacheThreads' = [CacheThreads EXCEPT ![t] =
                               [pc |-> "idle", Entry |-> NoEntry, Handle |-> e, From |-> "Get", Result |-> FALSE]]
    /\ UNCHANGED <<m_Config, m_Cache, m_LruList, m_MemoryUsage, CacheNow>>
    /\ UNCHANGED notCacheVars

(***************************************************************************)
(* AssetCache::Insert<T> up to the lock in InsertEntry: make the entry     *)
(* (RefCount 0, LastAccess now), and run Evict when usage plus the new     *)
(* size is above the threshold.                                            *)
(***************************************************************************)
InsertBegin(t, k, Size) ==
    /\ CacheThreads[t].pc = "idle"
    /\ CacheThreads[t].Handle = NoEntry
    /\ Len(CacheEntries) < MaxEntries
    /\ LET e == Len(CacheEntries) + 1
           Table == Append(CacheEntries, [Key |-> k, SizeBytes |-> Size, LastAccess |-> CacheNow,
                                          RefCount |-> 0, RemovedBy |-> "none"])
           r == IF m_MemoryUsage + Size > EvictionThresholdBytes
                THEN EvictResult(Table)
                ELSE [Entries |-> Table, Cache |-> m_Cache, List |-> m_LruList,
                      Usage |-> m_MemoryUsage]
       IN
        /\ CacheEntries' = r.Entries
        /\ m_Cache' = r.Cache
        /\ m_LruList' = r.List
        /\ m_MemoryUsage' = r.Usage
        /\ CacheThreads' = [CacheThreads EXCEPT ![t] = [@ EXCEPT !.pc = "InsertEntry", !.Entry = e]]
    /\ UNCHANGED <<m_Config, CacheNow>>
    /\ UNCHANGED notCacheVars

(***************************************************************************)
(* AssetCache::InsertEntry under the unique lock: an entry already stored  *)
(* under the key is taken out of the accounting and of the LRU list, then  *)
(* the new entry is stored, accounted for and pushed on the list's front.  *)
(***************************************************************************)
InsertEntry(t) ==
    /\ CacheThreads[t].pc = "InsertEntry"
    /\ LET e == CacheThreads[t].Entry
           k == CacheEntries[e].Key
           Old == m_Cache[k]
       IN
        /\ m_MemoryUsage' = (IF Old # NoEntry
                             THEN m_MemoryUsage - CacheEntries[Old].SizeBytes
                             ELSE m_MemoryUsage) + CacheEntries[e].SizeBytes
        /\ m_LruList' = <<e>> \o LruErase(m_LruList, {Old})
        /\ m_Cache' = [m_Cache EXCEPT ![k] = e]
        /\ CacheEntries' = IF Old # NoEntry
                           THEN [CacheEntries EXCEPT ![Old].RemovedBy = "InsertEntry"]
                           ELSE CacheEntries
        /\ CacheThreads' = [CacheThreads EXCEPT ![t].pc = "Insert"]
    /\ UNCHANGED <<m_Config, CacheNow>>
    /\ UNCHANGED notCacheVars

(***************************************************************************)
(* AssetCache::Insert<T>, the return statement: construct the AssetHandle. *)
(***************************************************************************)
InsertHandle(t) ==
    /\ CacheThreads[t].pc = "Insert"
    /\ LET e == CacheThreads[t].Entry IN
        /\ CacheEntries' = [CacheEntries EXCEPT ![e].RefCount = @ + 1]
        /\ CacheThreads' = [CacheThreads EXCEPT ![t] =
                               [pc |-> "idle", Entry |-> NoEntry, Handle |-> e, From |-> "Insert", Result |-> FALSE]]
    /\ UNCHANGED <<m_Config, m_Cache, m_LruList, m_MemoryUsage, CacheNow>>
    /\ UNCHANGED notCacheVars

(***************************************************************************)
(* AssetHandle::Release (also the destructor): decrement RefCount.         *)
(***************************************************************************)
Release(t) ==
    /\ CacheThreads[t].pc = "idle"
    /\ CacheThreads[t].Handle # NoEntry
    /\ CacheEntries' = [CacheEntries EXCEPT ![CacheThreads[t].Handle].RefCount = @ - 1]
    /\ CacheThreads' = [CacheThreads EXCEPT ![t] = IdleThread]
    /\ UNCHANGED <<m_Config, m_Cache, m_LruList, m_MemoryUsage, CacheNow>>
    /\ UNCHANGED notCacheVars

(***************************************************************************)
(* AssetCache::Remove under the unique lock: false for an absent key and   *)
(* for a referenced entry; otherwise the entry leaves the accounting, the  *)
(* list and the map and the result is true.  RemoveReturn hands the        *)
(* result to the caller.                                                   *)
(***************************************************************************)
\* Remove without the RefCount test, as ForceRemove does it.
RemoveIgnoringRefCount(t, k) ==
    /\ CacheThreads[t].pc = "idle"
    /\ LET e == m_Cache[k] IN
        IF e = NoEntry
        THEN /\ UNCHANGED <<CacheEntries, m_Cache, m_LruList, m_MemoryUsage>>
             /\ CacheThreads' = [CacheThreads EXCEPT ![t].pc = "Remove", ![t].Result = FALSE]
        ELSE /\ m_MemoryUsage' = m_MemoryUsage - CacheEntries[e].SizeBytes
             /\ m_LruList' = LruErase(m_LruList, {e})
             /\ m_Cache' = [m_Cache EXCEPT ![k] = NoEntry]
             /\ CacheEntries' = [CacheEntries EXCEPT ![e].RemovedBy = "Remove"]
             /\ CacheThreads' = [CacheThreads EXCEPT ![t].pc = "Remove", ![t].Result = TRUE]
    /\ UNCHANGED <<m_Config, CacheNow>>
    /\ UNCHANGED notCacheVars

Remove(t, k) ==
    /\ CacheThreads[t].pc = "idle"
    /\ LET e == m_Cache[k] IN
        IF e = NoEntry \/ CacheEntries[e].RefCount > 0
        THEN /\ UNCHANGED <<CacheEntries, m_Cache, m_LruList, m_MemoryUsage>>
             /\ CacheThreads' = [CacheThreads EXCEPT ![t].pc = "Remove", ![t].Result = FALSE]
        ELSE /\ m_MemoryUsage' = m_MemoryUsage - CacheEntries[e].SizeBytes
             /\ m_LruList' = LruErase(m_LruList, {e})
             /\ m_Cache' = [m_Cache EXCEPT ![k] = NoEntry]
             /\ CacheEntries' = [CacheEntries EXCEPT ![e].RemovedBy = "Remove"]
             /\ CacheThreads' = [CacheThreads EXCEPT ![t].pc = "Remove", ![t].Result = TRUE]
    /\ UNCHANGED <<m_Config, CacheNow>>
    /\ UNCHANGED notCacheVars

RemoveReturn(t) ==
    /\ CacheThreads[t].pc = "Remove"
    /\ CacheThreads' = [CacheThreads EXCEPT ![t].pc = "idle", ![t].Result = FALSE]
    /\ UNCHANGED <<m_Config, CacheEntries, m_Cache, m_LruList, m_MemoryUsage, CacheNow>>
    /\ UNCHANGED notCacheVars

(***************************************************************************)
(* AssetCache::ClearUnreferenced: every entry with RefCount 0 leaves.      *)
(***************************************************************************)
ClearUnreferenced(t) ==
    /\ CacheThreads[t].pc = "idle"
    /\ LET Gone == {e \in EntryIds : /\ \E k \in CacheKeys : m_Cache[k] = e
                                     /\ CacheEntries[e].RefCount = 0}
       IN
        /\ m_MemoryUsage' = m_MemoryUsage - SumSizeBytes(Gone)
        /\ m_LruList' = LruErase(m_LruList, Gone)
        /\ m_Cache' = [k \in CacheKeys |-> IF m_Cache[k] \in Gone THEN NoEntry ELSE m_Cache[k]]
        /\ CacheEntries' = [e \in DOMAIN CacheEntries |->
                               IF e \in Gone
                               THEN [CacheEntries[e] EXCEPT !.RemovedBy = "ClearUnreferenced"]
                               ELSE CacheEntries[e]]
    /\ UNCHANGED <<m_Config, CacheThreads, CacheNow>>
    /\ UNCHANGED notCacheVars

\* ForceRemove leaving m_MemoryUsage as it is.
ForceRemoveKeepingUsage(t, k) ==
    /\ CacheThreads[t].pc = "idle"
    /\ LET e == m_Cache[k] IN
        IF e = NoEntry
        THEN UNCHANGED <<CacheEntries, m_Cache, m_LruList, m_MemoryUsage>>
        ELSE /\ UNCHANGED m_MemoryUsage
             /\ m_LruList' = LruErase(m_LruList, {e})
             /\ m_Cache' = [m_Cache EXCEPT ![k] = NoEntry]
             /\ CacheEntries' = [CacheEntries EXCEPT ![e].RemovedBy = "ForceRemove"]
    /\ UNCHANGED <<m_Config, CacheThreads, CacheNow>>
    /\ UNCHANGED notCacheVars

(***************************************************************************)
(* AssetCache::ForceRemove under the unique lock: nothing for an absent    *)
(* key; otherwise the entry, referenced or not, leaves the accounting, the *)
(* list and the map.                                                       *)
(***************************************************************************)
ForceRemove(t, k) ==
    /\ CacheThreads[t].pc = "idle"
    /\ LET e == m_Cache[k] IN
        IF e = NoEntry
        THEN UNCHANGED <<CacheEntries, m_Cache, m_LruList, m_MemoryUsage>>
        ELSE /\ m_MemoryUsage' = m_MemoryUsage - CacheEntries[e].SizeBytes
             /\ m_LruList' = LruErase(m_LruList, {e})
             /\ m_Cache' = [m_Cache EXCEPT ![k] = NoEntry]
             /\ CacheEntries' = [CacheEntries EXCEPT ![e].RemovedBy = "ForceRemove"]
    /\ UNCHANGED <<m_Config, CacheThreads, CacheNow>>
    /\ UNCHANGED notCacheVars

(***************************************************************************)
(* AssetCache::ClearAll under the unique lock: list and map are cleared    *)
(* and the usage set to 0.                                                 *)
(***************************************************************************)
ClearAll(t) ==
    /\ CacheThreads[t].pc = "idle"
    /\ m_LruList' = <<>>
    /\ m_Cache' = [k \in CacheKeys |-> NoEntry]
    /\ m_MemoryUsage' = 0
    /\ CacheEntries' = [e \in DOMAIN CacheEntries |->
                           IF \E k \in CacheKeys : m_Cache[k] = e
                           THEN [CacheEntries[e] EXCEPT !.RemovedBy = "ClearAll"]
                           ELSE CacheEntries[e]]
    /\ UNCHANGED <<m_Config, CacheThreads, CacheNow>>
    /\ UNCHANGED notCacheVars

(***************************************************************************)
(* AssetCache::Evict called by a client.                                   *)
(***************************************************************************)
Evict(t) ==
    /\ CacheThreads[t].pc = "idle"
    /\ LET r == EvictResult(CacheEntries) IN
        /\ CacheEntries' = r.Entries
        /\ m_Cache' = r.Cache
        /\ m_LruList' = r.List
        /\ m_MemoryUsage' = r.Usage
    /\ UNCHANGED <<m_Config, CacheThreads, CacheNow>>
    /\ UNCHANGED notCacheVars

(***************************************************************************)
(* Time passes.                                                            *)
(***************************************************************************)
CacheTick ==
    /\ CacheNow < MaxCacheTime
    /\ CacheNow' = CacheNow + 1
    /\ UNCHANGED <<m_Config, CacheEntries, m_Cache, m_LruList, m_MemoryUsage, CacheThreads>>
    /\ UNCHANGED notCacheVars

CacheThread(t) ==
    \/ \E k \in CacheKeys : GetEntry(t, k)
    \/ GetHandle(t)
    \/ \E k \in CacheKeys, Size \in EntrySizes : InsertBegin(t, k, Size)
    \/ InsertEntry(t)
    \/ InsertHandle(t)
    \/ Release(t)
    \/ \E k \in CacheKeys : Remove(t, k)
    \/ RemoveReturn(t)
    \/ ClearUnreferenced(t)
    \/ Evict(t)

(***************************************************************************)
(* CacheNext: the threads run concurrently.  CacheNextSequential: a thread *)
(* takes a step only while no other thread is inside a call, so the calls  *)
(* form a sequence; handles are still held by several threads.             *)
(***************************************************************************)
CacheNext ==
    \/ \E t \in CacheThreadIds : CacheThread(t)
    \/ CacheTick

OthersIdle(t) == \A u \in CacheThreadIds \ {t} : CacheThreads[u].pc = "idle"

CacheNextSequential ==
    \/ \E t \in CacheThreadIds, k \in CacheKeys : OthersIdle(t) /\ GetEntry(t, k)
    \/ \E t \in CacheThreadIds : OthersIdle(t) /\ GetHandle(t)
    \/ \E t \in CacheThreadIds, k \in CacheKeys, Size \in EntrySizes :
          OthersIdle(t) /\ InsertBegin(t, k, Size)
    \/ \E t \in CacheThreadIds : OthersIdle(t) /\ InsertEntry(t)
    \/ \E t \in CacheThreadIds : OthersIdle(t) /\ InsertHandle(t)
    \/ \E t \in CacheThreadIds : OthersIdle(t) /\ Release(t)
    \/ \E t \in CacheThreadIds, k \in CacheKeys : OthersIdle(t) /\ Remove(t, k)
    \/ \E t \in CacheThreadIds : OthersIdle(t) /\ RemoveReturn(t)
    \/ \E t \in CacheThreadIds : OthersIdle(t) /\ ClearUnreferenced(t)
    \/ \E t \in CacheThreadIds : OthersIdle(t) /\ Evict(t)
    \/ CacheTick

(***************************************************************************)
(* CacheNextAll: CacheNext with the calls that take entries out whatever   *)
(* their RefCount.                                                         *)
(***************************************************************************)
CacheNextAll ==
    \/ CacheNext
    \/ \E t \in CacheThreadIds, k \in CacheKeys : ForceRemove(t, k)
    \/ \E t \in CacheThreadIds : ClearAll(t)

(***************************************************************************)
(* LruNext: sequences of Get and Insert calls, with the handles they       *)
(* return released at some time, Evict calls, and time passing.            *)
(***************************************************************************)
LruNext ==
    \/ \E t \in CacheThreadIds, k \in CacheKeys : OthersIdle(t) /\ GetEntry(t, k)
    \/ \E t \in CacheThreadIds : OthersIdle(t) /\ GetHandle(t)
    \/ \E t \in CacheThreadIds, k \in CacheKeys, Size \in EntrySizes :
          OthersIdle(t) /\ InsertBegin(t, k, Size)
    \/ \E t \in CacheThreadIds : OthersIdle(t) /\ InsertEntry(t)
    \/ \E t \in CacheThreadIds : OthersIdle(t) /\ InsertHandle(t)
    \/ \E t \in CacheThreadIds : OthersIdle(t) /\ Release(t)
    \/ \E t \in CacheThreadIds : OthersIdle(t) /\ Evict(t)
    \/ CacheTick

(***************************************************************************)
(* RuntimePipeline::ProcessSource.  A cook is named by its serial number   *)
(* for the logical name (1 for the first cook, 2 for the second, ...): the *)
(* PipelineResult a caller gets and the CookedAsset stored are the ones    *)
(* that cook produced.                                                     *)
(***************************************************************************)
PipelineThreadIds == 1..NumPipelineThreads
LogicalNames == 1..NumLogicalNames
NoThread == 0
NotCooked == 0
NoRuntimePack == [Exists |-> FALSE, Readable |-> FALSE, Assets |-> [n \in LogicalNames |-> NotCooked]]
NoSave == [Call |-> "none", Error |-> "", Dirty |-> {}, Cooked |-> <<>>]

(***************************************************************************)
(* AssetManager::AssetManager: the manager has a RuntimePipeline only when *)
(* Config.bEnableSourceAssets is set (and Initialize succeeded); the       *)
(* default is false.                                                       *)
(***************************************************************************)
AssetManager_AssetManager(bEnableSourceAssets) ==
    /\ Pipeline = bEnableSourceAssets
    /\ m_CookedAssets = [n \in LogicalNames |-> NotCooked]
    /\ m_InFlight = {}
    /\ m_InFlightMutex = NoThread
    /\ BrokenPromise = {}
    /\ PipelineThreads = [t \in PipelineThreadIds |-> [pc |-> "idle", Name |-> 1]]
    /\ CookCount = [n \in LogicalNames |-> 0]
    /\ Returned = {}
    /\ ProcessCalls = 0
    /\ bDirty = [n \in LogicalNames |-> FALSE]
    /\ RuntimePack = NoRuntimePack
    /\ SaveReturn = NoSave

PipelineInit == AssetManager_AssetManager(TRUE)

ProcessReturn(t, Kind, Cook) ==
    /\ Returned' = Returned \cup {[Name |-> PipelineThreads[t].Name, Kind |-> Kind, Cook |-> Cook]}
    /\ PipelineThreads' = [PipelineThreads EXCEPT ![t] = [pc |-> "idle", Name |-> 1]]

(***************************************************************************)
(* ProcessSource, "Check if already processed": under m_Mutex, return the  *)
(* stored asset's result when the name is in m_CookedAssets.               *)
(***************************************************************************)
CheckProcessed(t, n) ==
    /\ Pipeline
    /\ PipelineThreads[t].pc = "idle"
    /\ ProcessCalls < MaxProcessCalls
    /\ ProcessCalls' = ProcessCalls + 1
    /\ IF m_CookedAssets[n] # NotCooked
       THEN /\ Returned' = Returned \cup {[Name |-> n, Kind |-> "Cooked", Cook |-> m_CookedAssets[n]]}
            /\ UNCHANGED PipelineThreads
       ELSE /\ PipelineThreads' = [PipelineThreads EXCEPT ![t] = [pc |-> "InFlight", Name |-> n]]
            /\ UNCHANGED Returned
    /\ UNCHANGED <<m_CookedAssets, m_InFlight, m_InFlightMutex, BrokenPromise, CookCount>>
    /\ UNCHANGED <<bDirty, RuntimePack, Pipeline>>
    /\ SaveReturn' = NoSave
    /\ UNCHANGED notPipelineVars

(***************************************************************************)
(* ProcessSource, "Check for in-flight processing": lock m_InFlightMutex;  *)
(* a name found in m_InFlight gives its future, to be waited on after the  *)
(* lock is released; otherwise the caller registers a new future and       *)
(* starts DoProcessSource, still holding the lock.                         *)
(***************************************************************************)
CheckInFlight(t) ==
    /\ PipelineThreads[t].pc = "InFlight"
    /\ m_InFlightMutex = NoThread
    /\ IF PipelineThreads[t].Name \in m_InFlight
       THEN /\ PipelineThreads' = [PipelineThreads EXCEPT ![t].pc = "FutureGet"]
            /\ UNCHANGED <<m_InFlight, m_InFlightMutex>>
       ELSE /\ PipelineThreads' = [PipelineThreads EXCEPT ![t].pc = "DoProcessSource"]
            /\ m_InFlight' = m_InFlight \cup {PipelineThreads[t].Name}
            /\ m_InFlightMutex' = t
    /\ UNCHANGED <<m_CookedAssets, BrokenPromise, CookCount, Returned, ProcessCalls>>
    /\ UNCHANGED <<bDirty, RuntimePack, Pipeline>>
    /\ SaveReturn' = NoSave
    /\ UNCHANGED notPipelineVars

(***************************************************************************)
(* DoProcessSource and the rest of the first requester's branch.  The      *)
(* import and cook succeed, fail with an error, or an importer or cooker   *)
(* throws.  On success the asset is stored under m_Mutex.  After success   *)
(* or error the promise is set, the name erased from m_InFlight and the    *)
(* result returned; an exception leaves the function at once, destroying   *)
(* the promise and leaving the name in m_InFlight.  The lock guard         *)
(* releases m_InFlightMutex in every case.                                 *)
(***************************************************************************)
DoProcessSource(t) ==
    /\ PipelineThreads[t].pc = "DoProcessSource"
    /\ LET n == PipelineThreads[t].Name IN
       \E Outcome \in {"Cooked", "Error", "Throws"} :
        /\ m_InFlightMutex' = NoThread
        /\ CASE Outcome = "Cooked" ->
                  /\ CookCount' = [CookCount EXCEPT ![n] = @ + 1]
                  /\ m_CookedAssets' = [m_CookedAssets EXCEPT ![n] = CookCount[n] + 1]
                  /\ bDirty' = [bDirty EXCEPT ![n] = TRUE]
                  /\ m_InFlight' = m_InFlight \ {n}
                  /\ ProcessReturn(t, "Cooked", CookCount[n] + 1)
                  /\ UNCHANGED BrokenPromise
             [] Outcome = "Error" ->
                  /\ m_InFlight' = m_InFlight \ {n}
                  /\ ProcessReturn(t, "Error", NotCooked)
                  /\ UNCHANGED <<CookCount, m_CookedAssets, BrokenPromise, bDirty>>
             [] Outcome = "Throws" ->
                  /\ BrokenPromise' = BrokenPromise \cup {n}
                  /\ ProcessReturn(t, "Exception", NotCooked)
                  /\ UNCHANGED <<CookCount, m_CookedAssets, m_InFlight, bDirty>>
    /\ UNCHANGED ProcessCalls
    /\ UNCHANGED <<RuntimePack, Pipeline>>
    /\ SaveReturn' = NoSave
    /\ UNCHANGED notPipelineVars

(***************************************************************************)
(* ProcessSource, "Wait on the existing future": Future.get() gives the    *)
(* value once the first requester has set it, and throws                   *)
(* std::future_error when the promise was destroyed unset.                 *)
(***************************************************************************)
FutureGet(t) ==
    /\ PipelineThreads[t].pc = "FutureGet"
    /\ PipelineThreads[t].Name \in BrokenPromise
    /\ ProcessReturn(t, "Exception", NotCooked)
    /\ UNCHANGED <<m_CookedAssets, m_InFlight, m_InFlightMutex, BrokenPromise, CookCount,
                   ProcessCalls>>
    /\ UNCHANGED <<bDirty, RuntimePack, Pipeline>>
    /\ SaveReturn' = NoSave
    /\ UNCHANGED notPipelineVars

(***************************************************************************)
(* What AssetPackWriter::Write(OutputPath) and AppendUpdate(OutputPath)    *)
(* leave at OutputPath with the dirty assets queued, and what they return. *)
(* Both leave the file alone when they return an error.  Neither tests the *)
(* stream after its writes: when a write fails (disk full) they still      *)
(* return success; Write has then renamed a truncated temp file over       *)
(* OutputPath, AppendUpdate has left the old pack, or a damaged one.  The  *)
(* index written holds the queued assets and no others.                    *)
(***************************************************************************)
QueuedAssets == [n \in LogicalNames |-> IF bDirty[n] THEN m_CookedAssets[n] ELSE NotCooked]

Damaged == [Exists |-> TRUE, Readable |-> FALSE, Assets |-> [n \in LogicalNames |-> NotCooked]]

WriteResults ==
    {[Error |-> "Failed to write runtime pack", File |-> RuntimePack],
     [Error |-> "", File |-> [Exists |-> TRUE, Readable |-> TRUE, Assets |-> QueuedAssets]],
     [Error |-> "", File |-> Damaged]}
    \cup IF RuntimePack.Exists THEN {[Error |-> "", File |-> RuntimePack]} ELSE {}

(***************************************************************************)
(* RuntimePipeline::SaveAll, under m_Mutex from beginning to end: nothing  *)
(* to do without a dirty asset; else the dirty assets are queued in a new  *)
(* writer and written (AppendUpdate when the file exists, else Write); on  *)
(* success every asset is marked clean.                                    *)
(***************************************************************************)
SaveAll(t) ==
    /\ PipelineThreads[t].pc = "idle"
    /\ IF \A n \in LogicalNames : ~bDirty[n]
       THEN /\ SaveReturn' = [Call |-> "SaveAll", Error |-> "", Dirty |-> {},
                              Cooked |-> m_CookedAssets]
            /\ UNCHANGED <<bDirty, RuntimePack>>
       ELSE \E r \in WriteResults :
            /\ RuntimePack' = r.File
            /\ bDirty' = IF r.Error = "" THEN [n \in LogicalNames |-> FALSE] ELSE bDirty
            /\ SaveReturn' = [Call |-> "SaveAll", Error |-> r.Error,
                              Dirty |-> {n \in LogicalNames : bDirty[n]},
                              Cooked |-> m_CookedAssets]
    /\ UNCHANGED <<m_CookedAssets, m_InFlight, m_InFlightMutex, BrokenPromise, PipelineThreads,
                   CookCount, Returned, ProcessCalls, Pipeline>>
    /\ UNCHANGED notPipelineVars

(***************************************************************************)
(* AssetManager::SaveRuntimeAssets: an error without a pipeline, else      *)
(* Pipeline->SaveAll().                                                    *)
(***************************************************************************)
SaveRuntimeAssets(t) ==
    IF ~Pipeline
    THEN /\ PipelineThreads[t].pc = "idle"
         /\ SaveReturn' = [Call |-> "SaveRuntimeAssets",
                           Error |-> "Runtime pipeline not initialized",
                           Dirty |-> {}, Cooked |-> m_CookedAssets]
         /\ UNCHANGED <<m_CookedAssets, m_InFlight, m_InFlightMutex, BrokenPromise,
                        PipelineThreads, CookCount, Returned, ProcessCalls, bDirty,
                        RuntimePack, Pipeline>>
         /\ UNCHANGED notPipelineVars
    ELSE SaveAll(t)

PipelineNext ==
    \/ \E t \in PipelineThreadIds, n \in LogicalNames : CheckProcessed(t, n)
    \/ \E t \in PipelineThreadIds : CheckInFlight(t)
    \/ \E t \in PipelineThreadIds : DoProcessSource(t)
    \/ \E t \in PipelineThreadIds : FutureGet(t)
    \/ \E t \in PipelineThreadIds : SaveRuntimeAssets(t)

(***************************************************************************)
(* PayloadRegistry.  A serializer is the pair of its TypeId and its type   *)
(* name.                                                                   *)
(***************************************************************************)
RegistryThreadIds == 1..NumRegistryThreads
TypeIds == 1..NumTypeIds
TypeNames == 1..NumTypeNames
Serializers == TypeIds \X TypeNames
NoSerializer == <<0, 0>>
IdleRegistryThread == [pc |-> "idle", Serializer |-> NoSerializer, Id |-> 0, bSeenFrozen |-> FALSE]
NoRegister == [Call |-> "none", Serializer |-> NoSerializer, Thrown |-> "", Before |-> <<>>]

RegistryInit ==
    /\ bFrozen = FALSE
    /\ Mutex = [Writer |-> NoThread, Readers |-> {}]
    /\ SerializersByType = [i \in TypeIds |-> NoSerializer]
    /\ SerializersByName = [n \in TypeNames |-> NoSerializer]
    /\ AllSerializers = <<>>
    /\ RegistryThreads = [t \in RegistryThreadIds |-> IdleRegistryThread]
    /\ FrozenMaps = <<>>
    /\ RegisterReturn = NoRegister
    /\ IsFrozenReturn = "none"
    /\ bSeenFrozen = FALSE
    /\ FrozenFound = [i \in TypeIds |-> {}]

(***************************************************************************)
(* PayloadRegistry::Register, the test of bFrozen made before the lock is  *)
(* taken: a frozen registry throws.                                        *)
(***************************************************************************)
RegisterCheckFrozen(t, S) ==
    /\ RegistryThreads[t].pc = "idle"
    /\ IF bFrozen
       THEN /\ RegisterReturn' = [Call |-> "Register", Serializer |-> S,
                                  Thrown |-> "Cannot register after freeze",
                                  Before |-> registryMaps]
            /\ UNCHANGED RegistryThreads
       ELSE /\ RegistryThreads' = [RegistryThreads EXCEPT ![t] =
                                      [IdleRegistryThread EXCEPT !.pc = "RegisterLock",
                                                                 !.Serializer = S]]
            /\ RegisterReturn' = NoRegister
    /\ IsFrozenReturn' = "none"
    /\ UNCHANGED <<bFrozen, Mutex, SerializersByType, SerializersByName, AllSerializers,
                   FrozenMaps, bSeenFrozen, FrozenFound>>
    /\ UNCHANGED notRegistryVars

(***************************************************************************)
(* PayloadRegistry::Register: std::unique_lock Lock(Mutex).                *)
(***************************************************************************)
RegisterLock(t) ==
    /\ RegistryThreads[t].pc = "RegisterLock"
    /\ Mutex.Writer = NoThread
    /\ Mutex.Readers = {}
    /\ Mutex' = [Mutex EXCEPT !.Writer = t]
    /\ RegistryThreads' = [RegistryThreads EXCEPT ![t].pc = "Registering"]
    /\ RegisterReturn' = NoRegister
    /\ IsFrozenReturn' = "none"
    /\ UNCHANGED <<bFrozen, SerializersByType, SerializersByName, AllSerializers, FrozenMaps,
                   bSeenFrozen, FrozenFound>>
    /\ UNCHANGED notRegistryVars

\* The two tests Register makes under the lock, without the one of the name.
AlreadyRegisteredByType(S) ==
    IF SerializersByType[S[1]] # NoSerializer THEN "TypeId already registered"
    ELSE ""

(***************************************************************************)
(* PayloadRegistry::Register under the lock: the exception thrown for a    *)
(* TypeId or a type name that is already registered, "" for none.          *)
(***************************************************************************)
AlreadyRegistered(S) ==
    IF SerializersByType[S[1]] # NoSerializer THEN "TypeId already registered"
    ELSE IF SerializersByName[S[2]] # NoSerializer THEN "TypeName already registered"
    ELSE ""

(***************************************************************************)
(* PayloadRegistry::Register under the lock: throw on a TypeId or a type   *)
(* name that is already registered, else add the serializer to the two     *)
(* maps and the list; the lock is released on the way out.                 *)
(***************************************************************************)
RegisterLocked(t) ==
    /\ RegistryThreads[t].pc = "Registering"
    /\ LET S == RegistryThreads[t].Serializer IN
        /\ IF AlreadyRegistered(S) # ""
           THEN UNCHANGED <<SerializersByType, SerializersByName, AllSerializers>>
           ELSE /\ SerializersByType' = [SerializersByType EXCEPT ![S[1]] = S]
                /\ SerializersByName' = [SerializersByName EXCEPT ![S[2]] = S]
                /\ AllSerializers' = Append(AllSerializers, S)
        /\ RegisterReturn' = [Call |-> "Register", Serializer |-> S,
                              Thrown |-> AlreadyRegistered(S), Before |-> registryMaps]
    /\ Mutex' = [Mutex EXCEPT !.Writer = NoThread]
    /\ RegistryThreads' = [RegistryThreads EXCEPT ![t] = IdleRegistryThread]
    /\ IsFrozenReturn' = "none"
    /\ UNCHANGED <<bFrozen, FrozenMaps, bSeenFrozen, FrozenFound>>
    /\ UNCHANGED notRegistryVars

(***************************************************************************)
(* PayloadRegistry::Freeze: take the unique lock, store bFrozen, release.  *)
(***************************************************************************)
Freeze(t) ==
    /\ RegistryThreads[t].pc = "idle"
    /\ Mutex.Writer = NoThread
    /\ Mutex.Readers = {}
    /\ bFrozen' = TRUE
    /\ FrozenMaps' = IF bFrozen THEN FrozenMaps ELSE registryMaps
    /\ RegisterReturn' = NoRegister
    /\ IsFrozenReturn' = "none"
    /\ UNCHANGED <<Mutex, SerializersByType, SerializersByName, AllSerializers, RegistryThreads,
                   bSeenFrozen, FrozenFound>>
    /\ UNCHANGED notRegistryVars

(***************************************************************************)
(* PayloadRegistry::IsFrozen.                                              *)
(***************************************************************************)
IsFrozen(t) ==
    /\ RegistryThreads[t].pc = "idle"
    /\ IsFrozenReturn' = IF bFrozen THEN "true" ELSE "false"
    /\ bSeenFrozen' = (bSeenFrozen \/ bFrozen)
    /\ RegisterReturn' = NoRegister
    /\ UNCHANGED <<bFrozen, Mutex, SerializersByType, SerializersByName, AllSerializers,
                   RegistryThreads, FrozenMaps, FrozenFound>>
    /\ UNCHANGED notRegistryVars

(***************************************************************************)
(* PayloadRegistry::Find and FindByName: when bFrozen is set the map is    *)
(* read without a lock, otherwise under a shared lock.                     *)
(***************************************************************************)
FindBegin(t, Id) ==
    /\ RegistryThreads[t].pc = "idle"
    /\ IF bFrozen
       THEN /\ RegistryThreads' = [RegistryThreads EXCEPT ![t] =
                                      [IdleRegistryThread EXCEPT !.pc = "FindLockFree",
                                                                 !.Id = Id,
                                                                 !.bSeenFrozen = bSeenFrozen]]
            /\ UNCHANGED Mutex
       ELSE /\ Mutex.Writer = NoThread
            /\ Mutex' = [Mutex EXCEPT !.Readers = @ \cup {t}]
            /\ RegistryThreads' = [RegistryThreads EXCEPT ![t] =
                                      [IdleRegistryThread EXCEPT !.pc = "FindShared",
                                                                 !.Id = Id,
                                                                 !.bSeenFrozen = bSeenFrozen]]
    /\ RegisterReturn' = NoRegister
    /\ IsFrozenReturn' = "none"
    /\ UNCHANGED <<bFrozen, SerializersByType, SerializersByName, AllSerializers, FrozenMaps,
                   bSeenFrozen, FrozenFound>>
    /\ UNCHANGED notRegistryVars

(***************************************************************************)
(* What SerializersByType.find(Id) may give: It->second.get() or nullptr   *)
(* as the map has it; a find without the lock while a Register is          *)
(* inserting the TypeId races with the insertion and may see it or not.    *)
(***************************************************************************)
FindResults(t, Id) ==
    {SerializersByType[Id]} \cup
    {RegistryThreads[u].Serializer : u \in
        {v \in RegistryThreadIds : /\ RegistryThreads[t].pc = "FindLockFree"
                                   /\ RegistryThreads[v].pc = "Registering"
                                   /\ RegistryThreads[v].Serializer[1] = Id
                                   /\ AlreadyRegistered(RegistryThreads[v].Serializer) = ""}}

FindEnd(t) ==
    /\ RegistryThreads[t].pc \in {"FindLockFree", "FindShared"}
    /\ \E Result \in FindResults(t, RegistryThreads[t].Id) :
          FrozenFound' = IF RegistryThreads[t].bSeenFrozen
                         THEN [FrozenFound EXCEPT ![RegistryThreads[t].Id] = @ \cup {Result}]
                         ELSE FrozenFound
    /\ Mutex' = [Mutex EXCEPT !.Readers = @ \ {t}]
    /\ RegistryThreads' = [RegistryThreads EXCEPT ![t] = IdleRegistryThread]
    /\ RegisterReturn' = NoRegister
    /\ IsFrozenReturn' = "none"
    /\ UNCHANGED <<bFrozen, SerializersByType, SerializersByName, AllSerializers, FrozenMaps,
                   bSeenFrozen>>
    /\ UNCHANGED notRegistryVars

RegistryNext ==
    \/ \E t \in RegistryThreadIds, S \in Serializers : RegisterCheckFrozen(t, S)
    \/ \E t \in RegistryThreadIds : RegisterLock(t)
    \/ \E t \in RegistryThreadIds : RegisterLocked(t)
    \/ \E t \in RegistryThreadIds : Freeze(t)
    \/ \E t \in RegistryThreadIds : IsFrozen(t)
    \/ \E t \in RegistryThreadIds, Id \in TypeIds : FindBegin(t, Id)
    \/ \E t \in RegistryThreadIds : FindEnd(t)

(***************************************************************************)
(* AssetManager: mounting, unmounting, hot reload and loads.  A reader is  *)
(* named by the order in which it was made; it is alive while a            *)
(* MountedPack owns it.  Assets is the index the reader read when it       *)
(* opened the file.                                                        *)
(***************************************************************************)
PackPaths == 1..NumPackPaths
AssetIds == 1..NumAssets
Priorities == 0..MaxPriority
LoadThreadIds == 1..NumLoadThreads
NoReader == 0
RootPaths == 1..NumRootPaths
NoLookup == [Call |-> "none", Name |-> <<>>, Reader |-> NoReader, Id |-> 0, AbsolutePath |-> <<>>]
NoHotReload == [Call |-> "none", Before |-> <<>>, Callback |-> FALSE, ReloadedAssets |-> {}]
NoMount == [Call |-> "none", Path |-> 0, Error |-> "", Before |-> <<>>]

(***************************************************************************)
(* Names are strings over two letters.  The asset with id n is stored in   *)
(* a pack under the name of n letters "x", and every source root holds a   *)
(* file of that name; a mount point is empty or "m".                       *)
(***************************************************************************)
AssetName(Id) == [i \in 1..Id |-> "x"]
MountPoints == {<<>>, <<"m">>}
LookupNames == {AssetName(Id) : Id \in AssetIds} \cup {<<"m">> \o AssetName(Id) : Id \in AssetIds}
SourceFiles == {AssetName(Id) : Id \in AssetIds}

Range(f) == {f[i] : i \in DOMAIN f}

LiveReaders == {Packs[i].Reader : i \in DOMAIN Packs}

ManagerInit ==
    /\ Packs = <<>>
    /\ bHotReloadEnabled \in BOOLEAN
    /\ PackFiles \in [PackPaths -> SUBSET AssetIds]
    /\ LastWriteTime = [p \in PackPaths |-> 0]
    /\ NextReader = 1
    /\ LoadThreads = [t \in LoadThreadIds |-> [pc |-> "idle", Id |-> 1, Reader |-> NoReader]]
    /\ m_Roots = <<>>
    /\ Lookup = NoLookup
    /\ Unreadable = {}
    /\ HotReloadCallback = FALSE
    /\ HotReload = NoHotReload
    /\ MountReturn = NoMount

(***************************************************************************)
(* Impl::SortPacks: std::sort by descending priority.  std::sort is not    *)
(* stable, so packs of equal priority may end up in either order.          *)
(***************************************************************************)
SortPacks(P) ==
    {Q \in [1..Len(P) -> Range(P)] :
        /\ \A i, j \in 1..Len(P) : i # j => Q[i] # Q[j]
        /\ \A i, j \in 1..Len(P) : i < j => ~(Q[j].Priority > Q[i].Priority)}

\* MountPack pushing the pack back before its reader has opened the file.
MountPackBeforeOpen(Path, Priority, MountPoint) ==
    /\ NextReader <= MaxReaders
    /\ IF \E i \in DOMAIN Packs : Packs[i].Path = Path
       THEN /\ UNCHANGED <<Packs, NextReader>>
            /\ MountReturn' = [Call |-> "MountPack", Path |-> Path,
                               Error |-> "Pack already mounted", Before |-> Packs]
       ELSE /\ Packs' \in SortPacks(Append(Packs, [Path |-> Path, Priority |-> Priority,
                                                    MountPoint |-> MountPoint,
                                                    Reader |-> NextReader,
                                                    Assets |-> PackFiles[Path],
                                                    LastModified |-> LastWriteTime[Path]]))
            /\ NextReader' = NextReader + 1
            /\ MountReturn' = [Call |-> "MountPack", Path |-> Path,
                               Error |-> IF Path \in Unreadable THEN "Open failed" ELSE "",
                               Before |-> Packs]
    /\ UNCHANGED <<bHotReloadEnabled, PackFiles, LastWriteTime, LoadThreads>>
    /\ UNCHANGED m_Roots
    /\ Lookup' = NoLookup
    /\ UNCHANGED <<Unreadable, HotReloadCallback>>
    /\ HotReload' = NoHotReload
    /\ UNCHANGED notManagerVars

(***************************************************************************)
(* AssetManager::MountPack: an already mounted path is an error, and so is *)
(* a file the reader does not open (the error of AssetPackReader::Open is  *)
(* passed on; its text is modelled as "Open failed"); else the pack, with  *)
(* the new reader, is pushed back and the vector sorted.                   *)
(***************************************************************************)
MountPack(Path, Priority, MountPoint) ==
    /\ NextReader <= MaxReaders
    /\ IF \E i \in DOMAIN Packs : Packs[i].Path = Path
       THEN /\ UNCHANGED <<Packs, NextReader>>
            /\ MountReturn' = [Call |-> "MountPack", Path |-> Path,
                               Error |-> "Pack already mounted", Before |-> Packs]
       ELSE IF Path \in Unreadable
       THEN /\ UNCHANGED <<Packs, NextReader>>
            /\ MountReturn' = [Call |-> "MountPack", Path |-> Path,
                               Error |-> "Open failed", Before |-> Packs]
       ELSE /\ Packs' \in SortPacks(Append(Packs, [Path |-> Path, Priority |-> Priority,
                                                    MountPoint |-> MountPoint,
                                                    Reader |-> NextReader,
                                                    Assets |-> PackFiles[Path],
                                                    LastModified |-> LastWriteTime[Path]]))
            /\ NextReader' = NextReader + 1
            /\ MountReturn' = [Call |-> "MountPack", Path |-> Path, Error |-> "",
                               Before |-> Packs]
    /\ UNCHANGED <<bHotReloadEnabled, PackFiles, LastWriteTime, LoadThreads>>
    /\ UNCHANGED m_Roots
    /\ Lookup' = NoLookup
    /\ UNCHANGED <<Unreadable, HotReloadCallback>>
    /\ HotReload' = NoHotReload
    /\ UNCHANGED notManagerVars

(***************************************************************************)
(* AssetManager::UnmountPack: erase the pack with the path, if mounted.    *)
(***************************************************************************)
UnmountPack(Path) ==
    /\ Packs' = SelectSeq(Packs, LAMBDA P : P.Path # Path)
    /\ UNCHANGED <<bHotReloadEnabled, PackFiles, LastWriteTime, NextReader, LoadThreads>>
    /\ UNCHANGED m_Roots
    /\ Lookup' = NoLookup
    /\ UNCHANGED <<Unreadable, HotReloadCallback>>
    /\ HotReload' = NoHotReload
    /\ MountReturn' = NoMount
    /\ UNCHANGED notManagerVars

(***************************************************************************)
(* AssetManager::UnmountAll.                                               *)
(***************************************************************************)
UnmountAll ==
    /\ Packs' = <<>>
    /\ UNCHANGED <<bHotReloadEnabled, PackFiles, LastWriteTime, NextReader, LoadThreads>>
    /\ UNCHANGED m_Roots
    /\ Lookup' = NoLookup
    /\ UNCHANGED <<Unreadable, HotReloadCallback>>
    /\ HotReload' = NoHotReload
    /\ MountReturn' = NoMount
    /\ UNCHANGED notManagerVars

(***************************************************************************)
(* The pack file at a path is rewritten on disk (a build, a save); what    *)
(* is there afterwards is a pack the reader opens, or is not.              *)
(***************************************************************************)
RewritePackFile(Path, Assets, bOpens) ==
    /\ LastWriteTime[Path] < MaxWriteTime
    /\ ~bOpens => Assets = {}
    /\ LastWriteTime' = [LastWriteTime EXCEPT ![Path] = @ + 1]
    /\ PackFiles' = [PackFiles EXCEPT ![Path] = Assets]
    /\ Unreadable' = IF bOpens THEN Unreadable \ {Path} ELSE Unreadable \cup {Path}
    /\ UNCHANGED <<Packs, bHotReloadEnabled, NextReader, LoadThreads>>
    /\ UNCHANGED m_Roots
    /\ Lookup' = NoLookup
    /\ UNCHANGED HotReloadCallback
    /\ HotReload' = NoHotReload
    /\ MountReturn' = NoMount
    /\ UNCHANGED notManagerVars

(***************************************************************************)
(* AssetManager::SetHotReloadEnabled and SetHotReloadCallback.             *)
(***************************************************************************)
SetHotReloadEnabled(bEnabled) ==
    /\ bHotReloadEnabled' = bEnabled
    /\ UNCHANGED <<Packs, PackFiles, LastWriteTime, NextReader, LoadThreads, m_Roots,
                   Unreadable, HotReloadCallback>>
    /\ Lookup' = NoLookup
    /\ HotReload' = NoHotReload
    /\ MountReturn' = NoMount
    /\ UNCHANGED notManagerVars

SetHotReloadCallback(bCallback) ==
    /\ HotReloadCallback' = bCallback
    /\ UNCHANGED <<Packs, bHotReloadEnabled, PackFiles, LastWriteTime, NextReader, LoadThreads,
                   m_Roots, Unreadable>>
    /\ Lookup' = NoLookup
    /\ HotReload' = NoHotReload
    /\ MountReturn' = NoMount
    /\ UNCHANGED notManagerVars

\* The loop of CheckForChanges without the test of Open's result.
RECURSIVE ReloadPacksUnopened(_, _, _, _)
ReloadPacksUnopened(P, i, Reader, ReloadedAssets) ==
    IF i > Len(P) THEN [Packs |-> P, NextReader |-> Reader, ReloadedAssets |-> ReloadedAssets]
    ELSE IF LastWriteTime[P[i].Path] # P[i].LastModified
    THEN ReloadPacksUnopened([P EXCEPT ![i].Reader = Reader,
                                       ![i].Assets = PackFiles[P[i].Path],
                                       ![i].LastModified = LastWriteTime[P[i].Path]],
                             i + 1, Reader + 1, ReloadedAssets \cup P[i].Assets)
    ELSE ReloadPacksUnopened(P, i + 1, Reader, ReloadedAssets)

(***************************************************************************)
(* AssetManager::CheckForChanges: with hot reload enabled, every mounted   *)
(* pack whose file's modification time differs from the recorded one is    *)
(* opened by a new reader; if that succeeds the ids of the pack's old      *)
(* reader are collected, the new reader replaces the old one and the time  *)
(* is recorded.  The callback, if set, gets the collected ids unless there *)
(* are none.  (The ids are kept as a set: their order and repetitions in   *)
(* the vector are not modelled.)                                           *)
(***************************************************************************)
RECURSIVE ReloadPacks(_, _, _, _)
ReloadPacks(P, i, Reader, ReloadedAssets) ==
    IF i > Len(P) THEN [Packs |-> P, NextReader |-> Reader, ReloadedAssets |-> ReloadedAssets]
    ELSE IF LastWriteTime[P[i].Path] # P[i].LastModified /\ P[i].Path \notin Unreadable
    THEN ReloadPacks([P EXCEPT ![i].Reader = Reader,
                               ![i].Assets = PackFiles[P[i].Path],
                               ![i].LastModified = LastWriteTime[P[i].Path]],
                     i + 1, Reader + 1, ReloadedAssets \cup P[i].Assets)
    ELSE ReloadPacks(P, i + 1, Reader, ReloadedAssets)

CheckForChanges ==
    /\ NextReader + Len(Packs) <= MaxReaders + 1
    /\ IF bHotReloadEnabled
       THEN LET r == ReloadPacks(Packs, 1, NextReader, {}) IN
            /\ Packs' = r.Packs
            /\ NextReader' = r.NextReader
            /\ HotReload' = [Call |-> "CheckForChanges", Before |-> Packs,
                             Callback |-> (r.ReloadedAssets # {} /\ HotReloadCallback),
                             ReloadedAssets |-> r.ReloadedAssets]
       ELSE /\ UNCHANGED <<Packs, NextReader>>
            /\ HotReload' = [Call |-> "CheckForChanges", Before |-> Packs,
                             Callback |-> FALSE, ReloadedAssets |-> {}]
    /\ UNCHANGED <<bHotReloadEnabled, PackFiles, LastWriteTime, LoadThreads>>
    /\ UNCHANGED m_Roots
    /\ Lookup' = NoLookup
    /\ UNCHANGED <<Unreadable, HotReloadCallback>>
    /\ MountReturn' = NoMount
    /\ UNCHANGED notManagerVars

(***************************************************************************)
(* Impl::FindPackForAsset as called by LoadAnyById: the reader of the      *)
(* first pack, in vector order, that has the asset; no pack: "Asset not    *)
(* found".  The caller keeps the reader as a raw pointer.                  *)
(***************************************************************************)
PacksWithAsset(Id) == {i \in DOMAIN Packs : Id \in Packs[i].Assets}

FindPackForAsset(t, Id) ==
    /\ LoadThreads[t].pc = "idle"
    /\ LoadThreads' = [LoadThreads EXCEPT ![t] =
            IF PacksWithAsset(Id) = {}
            THEN [pc |-> "idle", Id |-> 1, Reader |-> NoReader]
            ELSE LET First == CHOOSE i \in PacksWithAsset(Id) :
                                 \A j \in PacksWithAsset(Id) : i <= j
                 IN [pc |-> "LoadCookedPayload", Id |-> Id, Reader |-> Packs[First].Reader]]
    /\ UNCHANGED <<Packs, bHotReloadEnabled, PackFiles, LastWriteTime, NextReader>>
    /\ UNCHANGED m_Roots
    /\ Lookup' = NoLookup
    /\ UNCHANGED <<Unreadable, HotReloadCallback>>
    /\ HotReload' = NoHotReload
    /\ MountReturn' = NoMount
    /\ UNCHANGED notManagerVars

(***************************************************************************)
(* LoadAnyById after FindPackForAsset: Reader->FindAsset,                  *)
(* Reader->LoadCookedPayload and the factory, through the raw pointer.     *)
(* Through a pointer to a destroyed reader the behaviour is undefined:     *)
(* the call may appear to work or the process may crash.                   *)
(***************************************************************************)
LoadCookedPayload(t) ==
    /\ LoadThreads[t].pc = "LoadCookedPayload"
    /\ \E Next \in {"idle", "crashed"} :
        /\ Next = "crashed" => LoadThreads[t].Reader \notin LiveReaders
        /\ LoadThreads' = [LoadThreads EXCEPT ![t] = [pc |-> Next, Id |-> 1, Reader |-> NoReader]]
    /\ UNCHANGED <<Packs, bHotReloadEnabled, PackFiles, LastWriteTime, NextReader>>
    /\ UNCHANGED m_Roots
    /\ Lookup' = NoLookup
    /\ UNCHANGED <<Unreadable, HotReloadCallback>>
    /\ HotReload' = NoHotReload
    /\ MountReturn' = NoMount
    /\ UNCHANGED notManagerVars

(***************************************************************************)
(* std::string::find: the position, counted from 0, of the first           *)
(* occurrence of Sub in Str, or npos.                                      *)
(***************************************************************************)
npos == -1

Find(Str, Sub) ==
    LET At == {p \in 0..(Len(Str) - Len(Sub)) : SubSeq(Str, p + 1, p + Len(Sub)) = Sub}
    IN  IF At = {} THEN npos ELSE CHOOSE p \in At : \A q \in At : p <= q

\* A lookup that takes the name as it is whatever the mount point.
LookupNameUnstripped(MountPoint, Name) == [Skip |-> FALSE, Name |-> Name]

(***************************************************************************)
(* The mount-point handling shared by Impl::FindPackForAssetByName and     *)
(* SourceAssetResolver::Resolve: no mount point, the name as it is; a      *)
(* mount point the name starts with, the name after it; else skip.         *)
(***************************************************************************)
LookupName(MountPoint, Name) ==
    IF MountPoint # <<>>
    THEN IF Find(Name, MountPoint) = 0
         THEN [Skip |-> FALSE, Name |-> SubSeq(Name, Len(MountPoint) + 1, Len(Name))]
         ELSE [Skip |-> TRUE, Name |-> Name]
    ELSE [Skip |-> FALSE, Name |-> Name]

(***************************************************************************)
(* AssetPackReader::FindAssetsByName on the index a mounted pack's reader  *)
(* holds: the ids stored under the name.                                   *)
(***************************************************************************)
FindAssetsByName(Pack, Name) == {Id \in Pack.Assets : AssetName(Id) = Name}

\* The walk over the packs from the back of the vector to its front.
RECURSIVE FindPackForAssetByNameBackwards(_, _)
FindPackForAssetByNameBackwards(i, Name) ==
    LET j == Len(Packs) + 1 - i IN
    IF i > Len(Packs) THEN [Reader |-> NoReader, Id |-> 0]
    ELSE LET l == LookupName(Packs[j].MountPoint, Name)
             Results == IF l.Skip THEN {} ELSE FindAssetsByName(Packs[j], l.Name)
         IN  IF Results # {}
             THEN [Reader |-> Packs[j].Reader,
                   Id |-> CHOOSE Id \in Results : \A o \in Results : Id <= o]
             ELSE FindPackForAssetByNameBackwards(i + 1, Name)

(***************************************************************************)
(* Impl::FindPackForAssetByName from pack i on: the reader of the first    *)
(* pack, in vector order, whose mount point fits and whose index has the   *)
(* looked-up name, with the first asset stored under it.                   *)
(***************************************************************************)
RECURSIVE FindPackForAssetByName(_, _)
FindPackForAssetByName(i, Name) ==
    IF i > Len(Packs) THEN [Reader |-> NoReader, Id |-> 0]
    ELSE LET l == LookupName(Packs[i].MountPoint, Name)
             Results == IF l.Skip THEN {} ELSE FindAssetsByName(Packs[i], l.Name)
         IN  IF Results # {}
             THEN [Reader |-> Packs[i].Reader,
                   Id |-> CHOOSE Id \in Results : \A o \in Results : Id <= o]
             ELSE FindPackForAssetByName(i + 1, Name)

(***************************************************************************)
(* AssetManager::FindAsset(Name), and the first statement of               *)
(* LoadAnyByName: what FindPackForAssetByName returns for the name.        *)
(***************************************************************************)
FindAssetByName(Name) ==
    /\ LET r == FindPackForAssetByName(1, Name) IN
        Lookup' = [Call |-> "FindAsset", Name |-> Name, Reader |-> r.Reader, Id |-> r.Id,
                   AbsolutePath |-> <<>>]
    /\ UNCHANGED <<Packs, bHotReloadEnabled, PackFiles, LastWriteTime, NextReader, LoadThreads,
                   m_Roots>>
    /\ UNCHANGED <<Unreadable, HotReloadCallback>>
    /\ HotReload' = NoHotReload
    /\ MountReturn' = NoMount
    /\ UNCHANGED notManagerVars

(***************************************************************************)
(* SourceAssetResolver::AddRoot: push back and std::sort by descending     *)
(* priority (roots of equal priority in either order).  RemoveRoot: every  *)
(* root with the path goes.                                                *)
(***************************************************************************)
SortRoots(R) ==
    {[i \in 1..Len(R) |-> R[p[i]]] :
        p \in {q \in [1..Len(R) -> 1..Len(R)] :
                  /\ \A i, j \in 1..Len(R) : i # j => q[i] # q[j]
                  /\ \A i, j \in 1..Len(R) : i < j => ~(R[q[j]].Priority > R[q[i]].Priority)}}

AddRoot(RootPath, Priority, MountPoint) ==
    /\ Len(m_Roots) < MaxRoots
    /\ m_Roots' \in SortRoots(Append(m_Roots, [RootPath |-> RootPath, Priority |-> Priority,
                                               MountPoint |-> MountPoint]))
    /\ Lookup' = NoLookup
    /\ UNCHANGED <<Packs, bHotReloadEnabled, PackFiles, LastWriteTime, NextReader, LoadThreads>>
    /\ UNCHANGED <<Unreadable, HotReloadCallback>>
    /\ HotReload' = NoHotReload
    /\ MountReturn' = NoMount
    /\ UNCHANGED notManagerVars

RemoveRoot(RootPath) ==
    /\ m_Roots' = SelectSeq(m_Roots, LAMBDA C : C.RootPath # RootPath)
    /\ Lookup' = NoLookup
    /\ UNCHANGED <<Packs, bHotReloadEnabled, PackFiles, LastWriteTime, NextReader, LoadThreads>>
    /\ UNCHANGED <<Unreadable, HotReloadCallback>>
    /\ HotReload' = NoHotReload
    /\ MountReturn' = NoMount
    /\ UNCHANGED notManagerVars

(***************************************************************************)
(* SourceAssetResolver::Resolve from root i on: the first root, in vector  *)
(* order, whose mount point fits and under which the looked-up name is a   *)
(* regular file; the path is the root path joined with the looked-up name. *)
(***************************************************************************)
RECURSIVE ResolveFrom(_, _)
ResolveFrom(i, Name) ==
    IF i > Len(m_Roots) THEN <<>>
    ELSE LET l == LookupName(m_Roots[i].MountPoint, Name) IN
         IF ~l.Skip /\ l.Name \in SourceFiles
         THEN <<m_Roots[i].RootPath, l.Name>>
         ELSE ResolveFrom(i + 1, Name)

Resolve(Name) ==
    /\ Lookup' = [Call |-> "Resolve", Name |-> Name, Reader |-> NoReader, Id |-> 0,
                  AbsolutePath |-> ResolveFrom(1, Name)]
    /\ UNCHANGED <<Packs, bHotReloadEnabled, PackFiles, LastWriteTime, NextReader, LoadThreads,
                   m_Roots>>
    /\ UNCHANGED <<Unreadable, HotReloadCallback>>
    /\ HotReload' = NoHotReload
    /\ MountReturn' = NoMount
    /\ UNCHANGED notManagerVars

ManagerNext ==
    \/ \E p \in PackPaths, Priority \in Priorities, MountPoint \in MountPoints :
          MountPack(p, Priority, MountPoint)
    \/ \E p \in PackPaths : UnmountPack(p)
    \/ UnmountAll
    \/ \E p \in PackPaths, Assets \in SUBSET AssetIds, bOpens \in BOOLEAN :
          RewritePackFile(p, Assets, bOpens)
    \/ CheckForChanges
    \/ \E t \in LoadThreadIds, Id \in AssetIds : FindPackForAsset(t, Id)
    \/ \E t \in LoadThreadIds : LoadCookedPayload(t)

(***************************************************************************)
(* The lookups by name with the calls that change what they walk: the      *)
(* mounted packs and the source roots.                                     *)
(***************************************************************************)
LookupNext ==
    \/ \E p \in PackPaths, Priority \in Priorities, MountPoint \in MountPoints :
          MountPack(p, Priority, MountPoint)
    \/ \E p \in PackPaths : UnmountPack(p)
    \/ UnmountAll
    \/ \E Name \in LookupNames : FindAssetByName(Name)
    \/ \E r \in RootPaths, Priority \in Priorities, MountPoint \in MountPoints :
          AddRoot(r, Priority, MountPoint)
    \/ \E r \in RootPaths : RemoveRoot(r)
    \/ \E Name \in LookupNames : Resolve(Name)

(***************************************************************************)
(* Hot reload with the calls that change what it compares: the mounted     *)
(* packs, the files and the two settings.                                  *)
(***************************************************************************)
HotReloadNext ==
    \/ \E p \in PackPaths, Priority \in Priorities : MountPack(p, Priority, <<>>)
    \/ \E p \in PackPaths : UnmountPack(p)
    \/ \E p \in PackPaths, Assets \in SUBSET AssetIds, bOpens \in BOOLEAN :
          RewritePackFile(p, Assets, bOpens)
    \/ \E bEnabled \in BOOLEAN : SetHotReloadEnabled(bEnabled)
    \/ \E bCallback \in BOOLEAN : SetHotReloadCallback(bCallback)
    \/ CheckForChanges

ManagerParked ==
    /\ ManagerInit
    /\ ~bHotReloadEnabled
    /\ PackFiles = [p \in PackPaths |-> {}]

(***************************************************************************)
(* Pack file layout (include/SnPakFormat.h as used by the writer).  The    *)
(* 128-bit content hashes are modelled by the hashed content itself.       *)
(***************************************************************************)
HeaderSize == 1         \* sizeof(Pack::SnPakHeaderV1), in cells
BlockHeaderSize == 1    \* sizeof of a string-block, chunk or index header, in cells
PayloadSize == 1        \* size of an asset's compressed payload, in cells

PackAssetIds == 1..NumPackAssets

NoFile == [Exists |-> FALSE, Cells |-> <<>>]

\* Pack::SnPakHeaderV1 Header = {} with magic, version, size and endian marker set.
HeaderPlaceholder ==
    [Magic |-> "SNPAK", FileSize |-> 0, IndexOffset |-> 0, IndexSize |-> 0,
     StringTableOffset |-> 0, StringTableSize |-> 0,
     PreviousIndexOffset |-> 0, PreviousIndexSize |-> 0,
     HasTrailingIndex |-> FALSE, IndexHash |-> <<>>]

\* The string table of the queued assets (their names, in queue order) as a block.
BuildStringTableBlock(Queued) ==
    LET StringData == [i \in 1..Len(Queued) |-> [Magic |-> "", String |-> Queued[i]]]
    IN  <<[Magic |-> "STRS", StringCount |-> Len(Queued),
           BlockSize |-> BlockHeaderSize + Len(Queued), Hash |-> StringData]>>
        \o StringData

\* The main payload chunk of an asset: SnPakChunkHeaderV1 and the payload.
BuildChunk(Id) ==
    <<[Magic |-> "CHNK", AssetId |-> Id, SizeCompressed |-> PayloadSize, Hash |-> Id],
      [Magic |-> "", Bytes |-> Id]>>

\* The SnPakIndexEntryV1 of the asset at position i of the queue, its chunk at Offset.
BuildIndexEntry(Id, i, Offset) ==
    [Magic |-> "", AssetId |-> Id, NameStringId |-> i - 1,
     PayloadChunkOffset |-> Offset,
     PayloadChunkSizeCompressed |-> BlockHeaderSize + PayloadSize,
     PayloadHash |-> Id]

BuildIndexBlock(Entries, PrevOffset, PrevSize) ==
    <<[Magic |-> "INDX", EntryCount |-> Len(Entries),
       BlockSize |-> BlockHeaderSize + Len(Entries),
       PreviousIndexOffset |-> PrevOffset, PreviousIndexSize |-> PrevSize,
       EntriesHash |-> Entries]>>
    \o Entries

(***************************************************************************)
(* Writing Data at Offset of a file: overwrites what is there and extends  *)
(* the file.  StreamWrite is File.write as the writer uses it: the result  *)
(* is never checked, a write on a failed stream does nothing, and a write  *)
(* that fails (disk full, I/O error) leaves part of the data written.      *)
(***************************************************************************)
WriteAt(Cells, Offset, Data) ==
    LET End == IF Offset + Len(Data) > Len(Cells) THEN Offset + Len(Data) ELSE Len(Cells)
    IN  [i \in 1..End |->
            IF i > Offset /\ i <= Offset + Len(Data) THEN Data[i - Offset]
            ELSE IF i <= Len(Cells) THEN Cells[i]
            ELSE [Magic |-> ""]]

StreamWrite(Cells, Failed, Offset, Data) ==
    IF Failed
    THEN {[Cells |-> Cells, Failed |-> TRUE]}
    ELSE {[Cells |-> WriteAt(Cells, Offset, Data), Failed |-> FALSE]}
         \cup {[Cells |-> WriteAt(Cells, Offset, SubSeq(Data, 1, n)), Failed |-> TRUE] :
                 n \in 0..(Len(Data) - 1)}

(***************************************************************************)
(* The pack reader (src/Pack/AssetPackReader.cpp).  Open reads the header, *)
(* the string table and the index the header points at, and nothing else.  *)
(***************************************************************************)
CheckRange(Offset, Size, ValidatedFileSize) ==
    /\ Size <= ValidatedFileSize
    /\ Offset <= ValidatedFileSize - Size

ReadStringTable(Cells, Header) ==
    LET Offset == Header.StringTableOffset
        StrHeader == Cells[Offset + 1]
        StringData == SubSeq(Cells, Offset + BlockHeaderSize + 1, Offset + Header.StringTableSize)
    IN  /\ CheckRange(Offset, Header.StringTableSize, Header.FileSize)
        /\ Header.StringTableSize >= BlockHeaderSize
        /\ StrHeader.Magic = "STRS"
        /\ StrHeader.BlockSize = Header.StringTableSize
        /\ StrHeader.BlockSize >= BlockHeaderSize + StrHeader.StringCount
        /\ StringData = StrHeader.Hash

\* The entries of the index at Header.IndexOffset, or <<>> with Ok false.
ReadIndex(Cells, Header) ==
    LET Offset == Header.IndexOffset
        IdxHeader == Cells[Offset + 1]
        IndexData == SubSeq(Cells, Offset + 1, Offset + Header.IndexSize)
        Entries == SubSeq(Cells, Offset + BlockHeaderSize + 1, Offset + Header.IndexSize)
        Ok == /\ CheckRange(Offset, Header.IndexSize, Header.FileSize)
              /\ Header.IndexSize >= BlockHeaderSize
              /\ IdxHeader.Magic = "INDX"
              /\ IdxHeader.BlockSize = Header.IndexSize
              /\ IdxHeader.BlockSize = BlockHeaderSize + IdxHeader.EntryCount
              /\ Entries = IdxHeader.EntriesHash
              /\ IndexData = Header.IndexHash
    IN  [Ok |-> Ok, IndexEntries |-> IF Ok THEN Entries ELSE <<>>]

\* AssetPackReader::Open: the reader's state, bOpen being Ok.
Open(File) ==
    LET Cells == File.Cells
        Header == Cells[1]
        Ok == /\ File.Exists
              /\ Len(Cells) >= HeaderSize
              /\ Header.Magic = "SNPAK"
              /\ Header.FileSize <= Len(Cells)
              /\ ReadStringTable(Cells, Header)
              /\ ReadIndex(Cells, Header).Ok
    IN  [Ok |-> Ok,
         Header |-> IF Ok THEN Header ELSE HeaderPlaceholder,
         IndexEntries |-> IF Ok THEN ReadIndex(Cells, Header).IndexEntries ELSE <<>>]

\* AssetIdToIndex.find(Id) != end(): the map is filled from IndexEntries.
FindAsset(Reader, Id) ==
    \E i \in 1..Len(Reader.IndexEntries) : Reader.IndexEntries[i].AssetId = Id

\* LoadCookedPayload with LoadChunk: the payload bytes of Id read from the
\* file, or failure.  AssetIdToIndex[Id] is the last entry with that id.
ReaderLoadCookedPayload(Reader, File, Id) ==
    LET Last == CHOOSE i \in 1..Len(Reader.IndexEntries) :
                    /\ Reader.IndexEntries[i].AssetId = Id
                    /\ \A j \in (i + 1)..Len(Reader.IndexEntries) :
                           Reader.IndexEntries[j].AssetId # Id
        Entry == Reader.IndexEntries[Last]
        Offset == Entry.PayloadChunkOffset
        ChunkHeader == File.Cells[Offset + 1]
        Payload == File.Cells[Offset + BlockHeaderSize + 1]
        Ok == /\ Reader.Ok
              /\ FindAsset(Reader, Id)
              /\ File.Exists
              /\ CheckRange(Offset, Entry.PayloadChunkSizeCompressed, Reader.Header.FileSize)
              /\ Offset + Entry.PayloadChunkSizeCompressed <= Len(File.Cells)
              /\ Entry.PayloadChunkSizeCompressed >= BlockHeaderSize
              /\ ChunkHeader.Magic = "CHNK"
              /\ ChunkHeader.SizeCompressed = Entry.PayloadChunkSizeCompressed - BlockHeaderSize
              /\ ChunkHeader.AssetId = Entry.AssetId
              /\ Payload.Magic = ""
              /\ Payload = [Magic |-> "", Bytes |-> ChunkHeader.Hash]
    IN  [Ok |-> Ok, Bytes |-> IF Ok THEN Payload.Bytes ELSE 0]

(***************************************************************************)
(* AssetPackWriter.  A call runs one stream write at a time; Return ends   *)
(* it.  The queue is a list without repeated ids, and nothing is queued    *)
(* once the last call has been made.                                       *)
(***************************************************************************)
IdleCall ==
    [pc |-> "idle", Call |-> "none", Target |-> "none", Failed |-> FALSE,
     CurrentOffset |-> 0, StringTableOffset |-> 0, IndexOffset |-> 0,
     IndexEntries |-> <<>>, OldHeader |-> HeaderPlaceholder]

PackInit ==
    /\ WriterAssets = <<>>
    /\ OutputFile = NoFile
    /\ TempFile = NoFile
    /\ WriterCall = IdleCall
    /\ Before = [Call |-> "none", Target |-> "none", Assets |-> <<>>, File |-> NoFile]
    /\ History = <<>>

AddAsset(Id) ==
    /\ WriterCall.pc = "idle"
    /\ Len(History) < MaxPackCalls
    /\ Id \notin Range(WriterAssets)
    /\ WriterAssets' = Append(WriterAssets, Id)
    /\ UNCHANGED <<OutputFile, TempFile, WriterCall, Before, History>>
    /\ UNCHANGED notPackVars

Clear ==
    /\ WriterCall.pc = "idle"
    /\ Len(History) < MaxPackCalls
    /\ WriterAssets # <<>>
    /\ WriterAssets' = <<>>
    /\ UNCHANGED <<OutputFile, TempFile, WriterCall, Before, History>>
    /\ UNCHANGED notPackVars

\* The call ends with Result: "Ok" is return {}, "Error" is std::unexpected.
Return(Call, Result) ==
    /\ WriterCall' = IdleCall
    /\ History' = Append(History, [Call |-> Call, Assets |-> WriterAssets, Result |-> Result,
                                   Failed |-> WriterCall.Failed,
                                   IndexOffset |-> WriterCall.IndexOffset])

\* Write up to the open of the temp file, which truncates it.
WriteOpen(Call) ==
    \E IsOpen \in BOOLEAN :
        /\ Before' = [Call |-> Call, Target |-> "Temp", Assets |-> WriterAssets,
                      File |-> OutputFile]
        /\ IF IsOpen
           THEN /\ TempFile' = [Exists |-> TRUE, Cells |-> <<>>]
                /\ WriterCall' = [IdleCall EXCEPT !.pc = "Header", !.Call = Call,
                                                  !.Target = "Temp"]
                /\ UNCHANGED History
           ELSE /\ Return(Call, "Error")
                /\ UNCHANGED TempFile
        /\ UNCHANGED <<WriterAssets, OutputFile>>

Write ==
    /\ WriterCall.pc = "idle"
    /\ Len(History) < MaxPackCalls
    /\ WriteOpen("Write")
    /\ UNCHANGED notPackVars

\* One File.write of Data at Offset by the running call, which goes on as Call.
WriteStep(Offset, Data, Call) ==
    LET Cells == IF WriterCall.Target = "Temp" THEN TempFile.Cells ELSE OutputFile.Cells
    IN  \E Out \in StreamWrite(Cells, WriterCall.Failed, Offset, Data) :
            /\ IF WriterCall.Target = "Temp"
               THEN /\ TempFile' = [TempFile EXCEPT !.Cells = Out.Cells]
                    /\ UNCHANGED OutputFile
               ELSE /\ OutputFile' = [OutputFile EXCEPT !.Cells = Out.Cells]
                    /\ UNCHANGED TempFile
            /\ WriterCall' = [Call EXCEPT !.Failed = Out.Failed]
            /\ UNCHANGED <<WriterAssets, Before, History>>

WriteHeaderPlaceholder ==
    /\ WriterCall.pc = "Header"
    /\ WriteStep(0, <<HeaderPlaceholder>>,
                 [WriterCall EXCEPT !.pc = "StringTable", !.CurrentOffset = HeaderSize])
    /\ UNCHANGED notPackVars

WriteStringTable ==
    /\ WriterCall.pc = "StringTable"
    /\ LET StringTableData == BuildStringTableBlock(WriterAssets)
       IN  WriteStep(WriterCall.CurrentOffset, StringTableData,
                     [WriterCall EXCEPT !.pc = "Chunks",
                                        !.StringTableOffset = WriterCall.CurrentOffset,
                                        !.CurrentOffset = @ + Len(StringTableData)])
    /\ UNCHANGED notPackVars

\* One turn of the loop over the queued assets: the chunk and its index entry.
WriteChunk ==
    /\ WriterCall.pc = "Chunks"
    /\ Len(WriterCall.IndexEntries) < Len(WriterAssets)
    /\ LET i == Len(WriterCall.IndexEntries) + 1
           Entry == BuildIndexEntry(WriterAssets[i], i, WriterCall.CurrentOffset)
       IN  WriteStep(WriterCall.CurrentOffset, BuildChunk(WriterAssets[i]),
                     [WriterCall EXCEPT !.IndexEntries = Append(@, Entry),
                                        !.CurrentOffset = @ + BlockHeaderSize + PayloadSize])
    /\ UNCHANGED notPackVars

\* The index block of the running call; AppendUpdate passes the old index's place.
IndexData ==
    IF WriterCall.Target = "Output"
    THEN BuildIndexBlock(WriterCall.IndexEntries, WriterCall.OldHeader.IndexOffset,
                         WriterCall.OldHeader.IndexSize)
    ELSE BuildIndexBlock(WriterCall.IndexEntries, 0, 0)

WriteIndex ==
    /\ WriterCall.pc = "Chunks"
    /\ Len(WriterCall.IndexEntries) = Len(WriterAssets)
    /\ WriteStep(WriterCall.CurrentOffset, IndexData,
                 [WriterCall EXCEPT !.pc = "FinalHeader",
                                    !.IndexOffset = WriterCall.CurrentOffset,
                                    !.CurrentOffset = @ + Len(IndexData)])
    /\ UNCHANGED notPackVars

\* The finished header: Write fills in its placeholder, AppendUpdate a copy of
\* the old header.  seekp(0) and the write; a failed stream ignores both.
WriteHeader ==
    /\ WriterCall.pc = "FinalHeader"
    /\ LET Sizes == [FileSize |-> WriterCall.CurrentOffset,
                     IndexOffset |-> WriterCall.IndexOffset,
                     IndexSize |-> Len(IndexData),
                     StringTableOffset |-> WriterCall.StringTableOffset,
                     StringTableSize |-> Len(BuildStringTableBlock(WriterAssets)),
                     IndexHash |-> IndexData]
           Base == IF WriterCall.Target = "Output"
                   THEN [WriterCall.OldHeader EXCEPT
                            !.PreviousIndexOffset = WriterCall.OldHeader.IndexOffset,
                            !.PreviousIndexSize = WriterCall.OldHeader.IndexSize,
                            !.HasTrailingIndex = TRUE]
                   ELSE HeaderPlaceholder
           Header == [f \in DOMAIN Base |-> IF f \in DOMAIN Sizes THEN Sizes[f] ELSE Base[f]]
       IN  WriteStep(0, <<Header>>,
                     [WriterCall EXCEPT !.pc = IF WriterCall.Target = "Temp"
                                               THEN "Rename" ELSE "Return"])
    /\ UNCHANGED notPackVars

\* std::filesystem::rename(TempPath, OutputPath): replaces the output file, or throws.
Rename ==
    /\ WriterCall.pc = "Rename"
    /\ \E Renamed \in BOOLEAN :
          IF Renamed
          THEN /\ OutputFile' = TempFile
               /\ TempFile' = NoFile
               /\ Return(WriterCall.Call, "Ok")
          ELSE /\ Return(WriterCall.Call, "Error")
               /\ UNCHANGED <<OutputFile, TempFile>>
    /\ UNCHANGED <<WriterAssets, Before>>
    /\ UNCHANGED notPackVars

\* File.close(); return {} at the end of AppendUpdate.
AppendReturn ==
    /\ WriterCall.pc = "Return"
    /\ Return(WriterCall.Call, "Ok")
    /\ UNCHANGED <<WriterAssets, OutputFile, TempFile, Before>>
    /\ UNCHANGED notPackVars

\* An append position inside the existing content: where the current index starts.
AppendOffsetAtOldIndex(Cells) == Cells[1].IndexOffset

\* File.seekp(0, std::ios::end); CurrentOffset = File.tellp().
AppendOffset(Cells) == Len(Cells)

\* AppendUpdate up to the first write: a missing file goes to Write, an
\* existing one has its header read and checked.
AppendUpdate ==
    /\ WriterCall.pc = "idle"
    /\ Len(History) < MaxPackCalls
    /\ IF ~OutputFile.Exists
       THEN WriteOpen("AppendUpdate")
       ELSE LET Cells == OutputFile.Cells
                OldHeader == Cells[1]
                Valid == /\ Len(Cells) >= HeaderSize
                         /\ OldHeader.Magic = "SNPAK"
                         /\ OldHeader.FileSize <= Len(Cells)
            IN  /\ Before' = [Call |-> "AppendUpdate", Target |-> "Output",
                              Assets |-> WriterAssets, File |-> OutputFile]
                /\ IF Valid
                   THEN /\ WriterCall' = [IdleCall EXCEPT
                                             !.pc = "StringTable",
                                             !.Call = "AppendUpdate",
                                             !.Target = "Output",
                                             !.CurrentOffset = AppendOffset(Cells),
                                             !.OldHeader = OldHeader]
                        /\ UNCHANGED History
                   ELSE Return("AppendUpdate", "Error")
                /\ UNCHANGED <<WriterAssets, OutputFile, TempFile>>
    /\ UNCHANGED notPackVars

\* The process is killed in the middle of a call; the next one starts with
\* the files as they are and a new writer.
Interrupt ==
    /\ WriterCall.pc # "idle"
    /\ Return(WriterCall.Call, "Interrupted")
    /\ WriterAssets' = <<>>
    /\ UNCHANGED <<OutputFile, TempFile, Before>>
    /\ UNCHANGED notPackVars

PackNext ==
    \/ \E Id \in PackAssetIds : AddAsset(Id)
    \/ Clear
    \/ Write
    \/ WriteHeaderPlaceholder
    \/ WriteStringTable
    \/ WriteChunk
    \/ WriteIndex
    \/ WriteHeader
    \/ Rename
    \/ AppendReturn
    \/ AppendUpdate
    \/ Interrupt

(***************************************************************************)
(* CancellationToken.  Client threads make tokens, cancel them, link them  *)
(* and ask whether they are cancelled.                                     *)
(***************************************************************************)
TokenIds == 1..MaxTokens
NoCall == [Token |-> 0, Result |-> FALSE]

TokenInit ==
    /\ m_Cancelled = <<>>
    /\ LinkedFrom = <<>>
    /\ IsCancelledCall = NoCall

(***************************************************************************)
(* CancellationToken::CancellationToken: a fresh flag, not cancelled.      *)
(***************************************************************************)
CancellationToken ==
    /\ Len(m_Cancelled) < MaxTokens
    /\ m_Cancelled' = Append(m_Cancelled, FALSE)
    /\ LinkedFrom' = Append(LinkedFrom, <<>>)
    /\ IsCancelledCall' = NoCall
    /\ UNCHANGED notTokenVars

(***************************************************************************)
(* CancellationToken::Cancel: m_Cancelled->store(true).                    *)
(***************************************************************************)
TokenCancel(T) ==
    /\ T \in DOMAIN m_Cancelled
    /\ m_Cancelled' = [m_Cancelled EXCEPT ![T] = TRUE]
    /\ IsCancelledCall' = NoCall
    /\ UNCHANGED LinkedFrom
    /\ UNCHANGED notTokenVars

(***************************************************************************)
(* CancellationToken::CreateLinked: a fresh token, cancelled at once when  *)
(* either parent's flag is set at this moment.  The parents' flags are     *)
(* copied into locals that are dropped on return: the token returned       *)
(* holds its own flag only.                                                *)
(***************************************************************************)
CreateLinked(A, B) ==
    /\ Len(m_Cancelled) < MaxTokens
    /\ A \in DOMAIN m_Cancelled
    /\ B \in DOMAIN m_Cancelled
    /\ m_Cancelled' = Append(m_Cancelled, m_Cancelled[A] \/ m_Cancelled[B])
    /\ LinkedFrom' = Append(LinkedFrom, <<A, B>>)
    /\ IsCancelledCall' = NoCall
    /\ UNCHANGED notTokenVars

(***************************************************************************)
(* CancellationToken::IsCancelled: m_Cancelled->load().                    *)
(***************************************************************************)
IsCancelledResult(T) == m_Cancelled[T]

IsCancelled(T) ==
    /\ T \in DOMAIN m_Cancelled
    /\ IsCancelledCall' = [Token |-> T, Result |-> IsCancelledResult(T)]
    /\ UNCHANGED <<m_Cancelled, LinkedFrom>>
    /\ UNCHANGED notTokenVars

TokenNext ==
    \/ CancellationToken
    \/ \E T \in TokenIds : TokenCancel(T)
    \/ \E A, B \in TokenIds : CreateLinked(A, B)
    \/ \E T \in TokenIds : IsCancelled(T)

(***************************************************************************)
(* AssetManager: factories and the type checks of the three load paths.    *)
(* What the load finds before it looks for the factory (the asset in a     *)
(* pack, the cooked asset in the runtime pipeline) is an input of the      *)
(* call: Asset is [Found, CookedPayloadType].                              *)
(***************************************************************************)
RuntimeTypes == 1..NumRuntimeTypes
CookedTypes == 1..NumCookedTypes
NoFactory == 0
LoadInputs == [Found : BOOLEAN, CookedPayloadType : CookedTypes]
NoLoad == [Call |-> "none", RuntimeType |-> 0, CookedPayloadType |-> 0, Error |-> "", Invoked |-> FALSE]

FactoryInit ==
    /\ FactoriesByRuntimeType = [r \in RuntimeTypes |-> NoFactory]
    /\ LoadReturn = NoLoad

(***************************************************************************)
(* AssetManager::RegisterFactoryImpl: the factory replaces the one         *)
(* registered for the runtime type, if any.                                *)
(***************************************************************************)
RegisterFactoryImpl(RuntimeType, CookedType) ==
    /\ FactoriesByRuntimeType' = [FactoriesByRuntimeType EXCEPT ![RuntimeType] = CookedType]
    /\ LoadReturn' = NoLoad
    /\ UNCHANGED notFactoryVars

\* The factory lookup without the comparison of the cooked types.
FindFactoryAnyCookedType(RuntimeType, CookedPayloadType) ==
    IF FactoriesByRuntimeType[RuntimeType] = NoFactory
    THEN "No factory registered for requested runtime type"
    ELSE ""

(***************************************************************************)
(* "Find factory for this runtime type" and "Verify the factory handles    *)
(* this cooked payload type", the same statements in the three loads: the  *)
(* error returned, "" to go on.                                            *)
(***************************************************************************)
FindFactory(RuntimeType, CookedPayloadType) ==
    IF FactoriesByRuntimeType[RuntimeType] = NoFactory
    THEN "No factory registered for requested runtime type"
    ELSE IF FactoriesByRuntimeType[RuntimeType] # CookedPayloadType
    THEN "Factory cooked type mismatch"
    ELSE ""

(***************************************************************************)
(* Factory->Load(Context): the factory is invoked and gives an object or   *)
(* an error of its own.                                                    *)
(***************************************************************************)
FactoryLoad == {[Error |-> e, Invoked |-> TRUE] : e \in {"", "Factory error"}}

Unexpected(Error) == {[Error |-> Error, Invoked |-> FALSE]}

(***************************************************************************)
(* AssetManager::LoadFromRuntimePipeline: the outcomes for the cooked      *)
(* asset the pipeline holds under the name.                                *)
(***************************************************************************)
FromRuntimePipeline(Asset, RuntimeType) ==
    IF ~Asset.Found THEN Unexpected("Asset not in runtime pipeline")
    ELSE IF FindFactory(RuntimeType, Asset.CookedPayloadType) # ""
    THEN Unexpected(FindFactory(RuntimeType, Asset.CookedPayloadType))
    ELSE FactoryLoad

LoadFromRuntimePipeline(Asset, RuntimeType) ==
    /\ \E r \in FromRuntimePipeline(Asset, RuntimeType) :
        LoadReturn' = [Call |-> "LoadFromRuntimePipeline", RuntimeType |-> RuntimeType,
                       CookedPayloadType |-> Asset.CookedPayloadType,
                       Error |-> r.Error, Invoked |-> r.Invoked]
    /\ UNCHANGED FactoriesByRuntimeType
    /\ UNCHANGED notFactoryVars

(***************************************************************************)
(* The part LoadAnyByName and LoadAnyById share once the asset is found    *)
(* in a pack: factory, type check, Reader->LoadCookedPayload (which may    *)
(* fail), Factory->Load.                                                   *)
(***************************************************************************)
FromPack(Asset, RuntimeType) ==
    IF FindFactory(RuntimeType, Asset.CookedPayloadType) # ""
    THEN Unexpected(FindFactory(RuntimeType, Asset.CookedPayloadType))
    ELSE Unexpected("LoadCookedPayload error") \cup FactoryLoad

(***************************************************************************)
(* AssetManager::LoadAnyByName: an asset found in no pack goes to the      *)
(* runtime pipeline when TryPipelineSource finds and cooks a source for    *)
(* the name (Source), else "Asset not found".                              *)
(***************************************************************************)
LoadAnyByName(Asset, Source, RuntimeType) ==
    /\ \E r \in IF ~Asset.Found /\ Source.Found THEN FromRuntimePipeline(Source, RuntimeType)
                ELSE IF ~Asset.Found THEN Unexpected("Asset not found")
                ELSE FromPack(Asset, RuntimeType) :
        LoadReturn' = [Call |-> "LoadAnyByName", RuntimeType |-> RuntimeType,
                       CookedPayloadType |-> IF Asset.Found THEN Asset.CookedPayloadType
                                             ELSE Source.CookedPayloadType,
                       Error |-> r.Error, Invoked |-> r.Invoked]
    /\ UNCHANGED FactoriesByRuntimeType
    /\ UNCHANGED notFactoryVars

(***************************************************************************)
(* AssetManager::LoadAnyById.                                              *)
(***************************************************************************)
LoadAnyById(Asset, RuntimeType) ==
    /\ \E r \in IF ~Asset.Found THEN Unexpected("Asset not found")
                ELSE FromPack(Asset, RuntimeType) :
        LoadReturn' = [Call |-> "LoadAnyById", RuntimeType |-> RuntimeType,
                       CookedPayloadType |-> Asset.CookedPayloadType,
                       Error |-> r.Error, Invoked |-> r.Invoked]
    /\ UNCHANGED FactoriesByRuntimeType
    /\ UNCHANGED notFactoryVars

FactoryNext ==
    \/ \E r \in RuntimeTypes, c \in CookedTypes : RegisterFactoryImpl(r, c)
    \/ \E Asset \in LoadInputs, r \in RuntimeTypes : LoadFromRuntimePipeline(Asset, r)
    \/ \E Asset, Source \in LoadInputs, r \in RuntimeTypes : LoadAnyByName(Asset, Source, r)
    \/ \E Asset \in LoadInputs, r \in RuntimeTypes : LoadAnyById(Asset, r)

(***************************************************************************)
(* The pack file field by field (include/SnPakFormat.h), as                *)
(* AssetPackWriter::Write lays it out and AssetPackReader reads it.  The   *)
(* file is a sequence of cells: the pack header, the string block, then    *)
(* for each asset its chunk header and the stored bytes of its payload,    *)
(* followed by the same for each of its bulk chunks, and the index block.  *)
(* A header or block takes one cell and so does a byte.  A hash is         *)
(* modelled by the hashed content.                                         *)
(***************************************************************************)
AuthoredIds == 1..NumAuthored
CompressionModes == {"None", "LZ4", "Zstd"}
\* 0xFFFFFFFF, no variant: the 32 bits all set, read as a signed value.
NoVariant == -1
nullptr == [Null |-> TRUE]
IsNull(Entry) == "Null" \in DOMAIN Entry

(***************************************************************************)
(* The AssetPackEntry records queued with AddAsset: a plain asset, one     *)
(* with a variant key, an empty payload and two bulk chunks, and one whose *)
(* variant key is another asset's name, alone or two of them, and the      *)
(* variant of a name queued before the plain asset of that name.           *)
(* AssetKind, payload type and schema version go with the id.              *)
(***************************************************************************)
BulkChunks ==
    <<[Semantic |-> 1, SubIndex |-> 0, bCompress |-> TRUE, Bytes |-> <<"q">>],
      [Semantic |-> 2, SubIndex |-> 1, bCompress |-> FALSE, Bytes |-> <<"r", "r">>]>>

AssetPackEntry(Id, Shape) ==
    [Id |-> Id, AssetKind |-> Id, Name |-> Shape.Name, VariantKey |-> Shape.VariantKey,
     Cooked |-> [PayloadType |-> Id, SchemaVersion |-> Id, Bytes |-> Shape.Bytes],
     Bulk |-> Shape.Bulk]

ShapeList == <<[Name |-> "a", VariantKey |-> "", Bytes |-> <<"p">>, Bulk |-> <<>>],
               [Name |-> "a", VariantKey |-> "v", Bytes |-> <<>>, Bulk |-> BulkChunks],
               [Name |-> "b", VariantKey |-> "a", Bytes |-> <<"p", "q">>,
                Bulk |-> SubSeq(BulkChunks, 1, 1)]>>

AuthoredSets ==
    {<<AssetPackEntry(1, ShapeList[i])>> : i \in 1..Len(ShapeList)} \cup
    UNION {{<<AssetPackEntry(1, ShapeList[i]), AssetPackEntry(NumAuthored, ShapeList[j])>> :
               j \in (i + 1)..Len(ShapeList)} : i \in 1..Len(ShapeList)} \cup
    {<<AssetPackEntry(1, ShapeList[2]), AssetPackEntry(NumAuthored, ShapeList[1])>>}

(***************************************************************************)
(* Pack::Compress and Pack::Decompress (src/Pack/Compression.cpp).         *)
(* Compress gives the input back for mode None and for an empty input;     *)
(* otherwise the codec's block: a leading cell for what the codec puts in  *)
(* front (LZ4's token, Zstd's frame header) and the data.  Decompress      *)
(* copies for mode None; LZ4_decompress_safe rejects an input that is not  *)
(* a block, the empty input included (a block has at least its token);     *)
(* ZSTD_decompress takes an empty input as no frames, giving no bytes, and *)
(* rejects what is not a frame; both throw when the size is not the        *)
(* expected one.                                                           *)
(***************************************************************************)
Compress(Data, Mode) ==
    IF Mode = "None" \/ Len(Data) = 0 THEN Data ELSE <<Mode>> \o Data

Decompress(Data, UncompressedSize, Mode) ==
    IF Mode = "None" THEN [Throws |-> FALSE, Bytes |-> SubSeq(Data, 1, UncompressedSize)]
    ELSE IF Len(Data) = 0
    THEN [Throws |-> (Mode = "LZ4" \/ UncompressedSize # 0), Bytes |-> <<>>]
    ELSE IF Data[1] # Mode \/ Len(Data) - 1 # UncompressedSize
    THEN [Throws |-> TRUE, Bytes |-> <<>>]
    ELSE [Throws |-> FALSE, Bytes |-> Tail(Data)]

DataCells(Data) == [i \in 1..Len(Data) |-> [Magic |-> "", Byte |-> Data[i]]]

(***************************************************************************)
(* Write's string table: AddString for every asset's name and non-empty    *)
(* variant key, each string once, in the order met; GetStringId is the     *)
(* position, from 0.                                                       *)
(***************************************************************************)
AddString(StringTable, Str) ==
    IF \E i \in 1..Len(StringTable) : StringTable[i] = Str THEN StringTable
    ELSE Append(StringTable, Str)

RECURSIVE AddStrings(_, _, _)
AddStrings(Assets, i, StringTable) ==
    IF i > Len(Assets) THEN StringTable
    ELSE AddStrings(Assets, i + 1,
                    IF Assets[i].VariantKey = ""
                    THEN AddString(StringTable, Assets[i].Name)
                    ELSE AddString(AddString(StringTable, Assets[i].Name), Assets[i].VariantKey))

GetStringId(StringTable, Str) ==
    (CHOOSE i \in 1..Len(StringTable) : StringTable[i] = Str) - 1

StringBlock(StringTable) ==
    [Magic |-> "STRS", Version |-> 1, Strings |-> StringTable, Hash |-> StringTable]

(***************************************************************************)
(* Write, "Write bulk chunks": the chunk header, the bulk entry (its       *)
(* SubIndex the position in the asset's Bulk) and the stored bytes of bulk *)
(* chunk BulkIdx (from 0) and the ones after it.  W is what has been       *)
(* written: [Cells, IndexEntries, BulkEntries].                            *)
(***************************************************************************)
RECURSIVE WriteBulk(_, _, _, _)
WriteBulk(Asset, BulkIdx, Mode, W) ==
    IF BulkIdx >= Len(Asset.Bulk) THEN W
    ELSE LET Bulk == Asset.Bulk[BulkIdx + 1]
             BulkCompression == IF Bulk.bCompress THEN Mode ELSE "None"
             CompressedBulk == Compress(Bulk.Bytes, BulkCompression)
             BulkChunkHeader ==
                 [Magic |-> "CHNK", Version |-> 1, AssetId |-> Asset.Id,
                  PayloadType |-> Asset.Cooked.PayloadType, SchemaVersion |-> 0,
                  Compression |-> BulkCompression, ChunkKind |-> "Bulk",
                  SizeCompressed |-> Len(CompressedBulk),
                  SizeUncompressed |-> Len(Bulk.Bytes), Hash |-> Bulk.Bytes]
             BulkEntry ==
                 [Semantic |-> Bulk.Semantic, SubIndex |-> BulkIdx,
                  ChunkOffset |-> Len(W.Cells),
                  SizeCompressed |-> BlockHeaderSize + Len(CompressedBulk),
                  SizeUncompressed |-> Len(Bulk.Bytes), Compression |-> BulkCompression,
                  Hash |-> Bulk.Bytes]
         IN  WriteBulk(Asset, BulkIdx + 1, Mode,
                       [W EXCEPT !.Cells = @ \o <<BulkChunkHeader>> \o DataCells(CompressedBulk),
                                 !.BulkEntries = Append(@, BulkEntry)])

VariantStringId(Asset, StringTable) ==
    IF Asset.VariantKey = "" THEN NoVariant ELSE GetStringId(StringTable, Asset.VariantKey)

(***************************************************************************)
(* Write, "Write chunks and build index entries", for asset i and the ones *)
(* after it.                                                               *)
(***************************************************************************)
RECURSIVE WriteChunks(_, _, _, _, _)
WriteChunks(Assets, i, Mode, StringTable, W) ==
    IF i > Len(Assets) THEN W
    ELSE LET Asset == Assets[i]
             CompressedPayload == Compress(Asset.Cooked.Bytes, Mode)
             ChunkHeader ==
                 [Magic |-> "CHNK", Version |-> 1, AssetId |-> Asset.Id,
                  PayloadType |-> Asset.Cooked.PayloadType,
                  SchemaVersion |-> Asset.Cooked.SchemaVersion,
                  Compression |-> Mode, ChunkKind |-> "MainPayload",
                  SizeCompressed |-> Len(CompressedPayload),
                  SizeUncompressed |-> Len(Asset.Cooked.Bytes), Hash |-> Asset.Cooked.Bytes]
             Entry ==
                 [AssetId |-> Asset.Id, AssetKind |-> Asset.AssetKind,
                  CookedPayloadType |-> Asset.Cooked.PayloadType,
                  CookedSchemaVersion |-> Asset.Cooked.SchemaVersion,
                  NameStringId |-> GetStringId(StringTable, Asset.Name),
                  VariantStringId |-> VariantStringId(Asset, StringTable),
                  PayloadChunkOffset |-> Len(W.Cells),
                  PayloadChunkSizeCompressed |-> BlockHeaderSize + Len(CompressedPayload),
                  PayloadChunkSizeUncompressed |-> Len(Asset.Cooked.Bytes),
                  Compression |-> Mode, PayloadHash |-> Asset.Cooked.Bytes,
                  bHasBulk |-> (Len(Asset.Bulk) > 0),
                  BulkFirstIndex |-> IF Len(Asset.Bulk) > 0 THEN Len(W.BulkEntries) ELSE 0,
                  BulkCount |-> Len(Asset.Bulk)]
             Main == [W EXCEPT !.Cells = @ \o <<ChunkHeader>> \o DataCells(CompressedPayload)]
             Bulked == WriteBulk(Asset, 0, Mode, Main)
         IN  WriteChunks(Assets, i + 1, Mode, StringTable,
                         [Bulked EXCEPT !.IndexEntries = Append(@, Entry)])

IndexBlock(IndexEntries, BulkEntries) ==
    [Magic |-> "INDX", Version |-> 1, Entries |-> IndexEntries, BulkEntries |-> BulkEntries,
     EntriesHash |-> <<IndexEntries, BulkEntries>>]

PackHeader(Cells, StringTableOffset, IndexOffset) ==
    [Magic |-> "SNPAK", Version |-> 1, HeaderSize |-> HeaderSize, EndianMarker |-> "01020304",
     FileSize |-> Len(Cells), IndexOffset |-> IndexOffset, IndexSize |-> BlockHeaderSize,
     StringTableOffset |-> StringTableOffset, StringTableSize |-> BlockHeaderSize,
     IndexHash |-> Cells[IndexOffset + 1]]

(***************************************************************************)
(* The cells AssetPackWriter::Write leaves at the output path when every   *)
(* write goes through: header placeholder, string block, chunks, index     *)
(* block, and the header rewritten.                                        *)
(***************************************************************************)
WrittenPack(Assets, Mode) ==
    LET StringTable == AddStrings(Assets, 1, <<>>)
        W == WriteChunks(Assets, 1, Mode, StringTable,
                         [Cells |-> <<HeaderPlaceholder, StringBlock(StringTable)>>,
                          IndexEntries |-> <<>>, BulkEntries |-> <<>>])
        Cells == W.Cells \o <<IndexBlock(W.IndexEntries, W.BulkEntries)>>
    IN  [Cells EXCEPT ![1] = PackHeader(Cells, HeaderSize, Len(W.Cells))]

\* The strings a name lookup is made with: the names and variant keys queued.
PackNames == {ShapeList[i].Name : i \in 1..Len(ShapeList)}
                 \cup {ShapeList[i].VariantKey : i \in 1..Len(ShapeList)}

NoImpl ==
    [bOpen |-> FALSE, bFileOpen |-> FALSE, ValidatedFileSize |-> 0, StringTable |-> <<>>,
     IndexEntries |-> <<>>, BulkEntries |-> <<>>, AssetIdToIndex |-> [Id \in AuthoredIds |-> 0],
     NameHashToIndices |-> [Name \in PackNames |-> <<>>]]

NoInfo ==
    [Id |-> 0, AssetKind |-> 0, CookedPayloadType |-> 0, SchemaVersion |-> 0, Name |-> "",
     VariantKey |-> "", BulkChunkCount |-> 0]

NoRead ==
    [Call |-> "none", Id |-> 0, BulkIndex |-> 0, Error |-> "", Bytes |-> <<>>, Info |-> NoInfo,
     Name |-> "", Infos |-> <<>>]

ReaderInit ==
    /\ Authored \in AuthoredSets
    /\ Compression \in CompressionModes
    /\ Disk = NoFile
    /\ Edits = 0
    /\ m_Impl = NoImpl
    /\ ReadReturn = NoRead

ReaderParked ==
    /\ ReaderInit
    /\ Authored = <<AssetPackEntry(1, [Name |-> "a", VariantKey |-> "", Bytes |-> <<"p">>,
                                       Bulk |-> <<>>])>>
    /\ Compression = "Zstd"

(***************************************************************************)
(* AssetPackWriter::Write(path) to a path where there is no file yet, with *)
(* every write going through.                                              *)
(***************************************************************************)
AssetPackWriter_Write ==
    /\ ~Disk.Exists
    /\ Disk' = [Exists |-> TRUE, Cells |-> WrittenPack(Authored, Compression)]
    /\ ReadReturn' = NoRead
    /\ UNCHANGED <<Authored, Compression, Edits, m_Impl>>
    /\ UNCHANGED notReaderVars

(***************************************************************************)
(* The file changes behind the reader's back: it is cut short, or a field  *)
(* of the pack header or of a chunk header or a stored byte is             *)
(* overwritten, or the index block is replaced by one that is intact by    *)
(* its hashes and has an entry pointing at another chunk or a bulk entry   *)
(* with another SubIndex.                                                  *)
(***************************************************************************)
Edit(Cells) ==
    /\ Disk.Exists
    /\ Edits < MaxEdits
    /\ Cells # Disk.Cells
    /\ Disk' = [Disk EXCEPT !.Cells = Cells]
    /\ Edits' = Edits + 1
    /\ ReadReturn' = NoRead
    /\ UNCHANGED <<Authored, Compression, m_Impl>>
    /\ UNCHANGED notReaderVars

Truncate(n) == Edit(SubSeq(Disk.Cells, 1, n))

SetFileSize(n) == Edit([Disk.Cells EXCEPT ![1].FileSize = n])

ChunkHeaderEdits(Header) ==
    {[Header EXCEPT !.Magic = "XXXX"], [Header EXCEPT !.Version = 2],
     [Header EXCEPT !.AssetId = NumAuthored + 1 - @],
     [Header EXCEPT !.PayloadType = NumAuthored + 1 - @],
     [Header EXCEPT !.SchemaVersion = @ + 1],
     [Header EXCEPT !.Compression = IF @ = "None" THEN "Zstd" ELSE "None"],
     [Header EXCEPT !.ChunkKind = IF @ = "Bulk" THEN "MainPayload" ELSE "Bulk"],
     [Header EXCEPT !.SizeCompressed = @ + 1],
     [Header EXCEPT !.SizeUncompressed = @ + 1],
     [Header EXCEPT !.Hash = <<"x">>]}

OverwriteChunkHeader(o, Header) ==
    /\ o \in 1..Len(Disk.Cells)
    /\ Disk.Cells[o].Magic = "CHNK"
    /\ Header \in ChunkHeaderEdits(Disk.Cells[o])
    /\ Edit([Disk.Cells EXCEPT ![o] = Header])

OverwriteByte(o) ==
    /\ o \in 1..Len(Disk.Cells)
    /\ Disk.Cells[o].Magic = ""
    /\ Edit([Disk.Cells EXCEPT ![o].Byte = "x"])

IndexEdits(Index) ==
    {IndexBlock([Index.Entries EXCEPT ![i].PayloadChunkOffset = Index.Entries[j].PayloadChunkOffset],
                Index.BulkEntries) : i, j \in 1..Len(Index.Entries)}
    \cup {IndexBlock(Index.Entries, [Index.BulkEntries EXCEPT ![i].SubIndex = 1 - @]) :
             i \in 1..Len(Index.BulkEntries)}
    \cup {IndexBlock(Index.Entries,
                     [Index.BulkEntries EXCEPT ![i].ChunkOffset = Index.BulkEntries[j].ChunkOffset]) :
             i, j \in 1..Len(Index.BulkEntries)}

ReplaceIndex(Index) ==
    /\ Len(Disk.Cells) > HeaderSize
    /\ Disk.Cells[Len(Disk.Cells)].Magic = "INDX"
    /\ Index \in IndexEdits(Disk.Cells[Len(Disk.Cells)])
    /\ Edit([Disk.Cells EXCEPT ![Len(Disk.Cells)] = Index, ![1].IndexHash = Index])

(***************************************************************************)
(* Impl::ReadStringTable and Impl::ReadIndex as Open calls them, with      *)
(* ValidatedFileSize at most the file's size: "" or the error.             *)
(***************************************************************************)
ReadStringTableError(Cells, Header) ==
    IF ~CheckRange(Header.StringTableOffset, Header.StringTableSize, Header.FileSize)
    THEN "String table offset/size exceeds file bounds"
    ELSE IF Header.StringTableSize < BlockHeaderSize
    THEN "String table size too small for header"
    ELSE LET StrHeader == Cells[Header.StringTableOffset + 1] IN
         IF StrHeader.Magic # "STRS" THEN "Invalid string table magic"
         ELSE IF StrHeader.Hash # StrHeader.Strings
         THEN "String table hash mismatch - data corrupted"
         ELSE ""

ReadIndexError(Cells, Header) ==
    IF ~CheckRange(Header.IndexOffset, Header.IndexSize, Header.FileSize)
    THEN "Index offset/size exceeds file bounds"
    ELSE IF Header.IndexSize < BlockHeaderSize
    THEN "Index size too small for header"
    ELSE LET IdxHeader == Cells[Header.IndexOffset + 1] IN
         IF IdxHeader.Magic # "INDX" THEN "Invalid index magic"
         ELSE IF IdxHeader.EntriesHash # <<IdxHeader.Entries, IdxHeader.BulkEntries>>
         THEN "Index entries hash mismatch - data corrupted"
         ELSE IF Header.IndexHash # IdxHeader
         THEN "Index block hash mismatch with header - data corrupted"
         ELSE ""

\* ReadIndex, "Build lookup maps": the last entry with the id, from 1; 0 for none.
BuildLookup(IndexEntries) ==
    [Id \in AuthoredIds |->
        IF \E i \in 1..Len(IndexEntries) : IndexEntries[i].AssetId = Id
        THEN CHOOSE i \in 1..Len(IndexEntries) :
                 /\ IndexEntries[i].AssetId = Id
                 /\ \A j \in (i + 1)..Len(IndexEntries) : IndexEntries[j].AssetId # Id
        ELSE 0]

\* ReadIndex, "Build lookup maps": under the hash of each name the indices, from
\* 0, of the entries written with that name, in index order.
RECURSIVE IndicesOfName(_, _, _, _)
IndicesOfName(IndexEntries, StringTable, Name, i) ==
    IF i > Len(IndexEntries) THEN <<>>
    ELSE (IF StringTable[IndexEntries[i].NameStringId + 1] = Name THEN <<i - 1>> ELSE <<>>)
         \o IndicesOfName(IndexEntries, StringTable, Name, i + 1)

BuildNameLookup(IndexEntries, StringTable) ==
    [Name \in PackNames |-> IndicesOfName(IndexEntries, StringTable, Name, 1)]

(***************************************************************************)
(* AssetPackReader::Open up to the string table: "" or the error.  A       *)
(* stream that is already open makes File.open fail and set failbit while  *)
(* is_open() stays true, so that the read of the header fails.             *)
(***************************************************************************)
OpenHeaderError ==
    IF ~Disk.Exists
    THEN IF m_Impl.bFileOpen THEN "Failed to get file size" ELSE "Failed to open file"
    ELSE IF Len(Disk.Cells) < HeaderSize THEN "File too small to contain header"
    ELSE IF m_Impl.bFileOpen THEN "Failed to read pack header"
    ELSE LET Header == Disk.Cells[1] IN
         IF Header.Magic # "SNPAK" THEN "Invalid pack file magic"
         ELSE IF Header.FileSize > Len(Disk.Cells)
         THEN "Header FileSize exceeds actual file size"
         ELSE ""

(***************************************************************************)
(* AssetPackReader::Open.  On success the reader holds the string table,   *)
(* the index and the lookup map and bOpen is set.  On an error the members *)
(* stay as they are, except those Open has overwritten by then:            *)
(* ValidatedFileSize, the string table once read, and the entries, which   *)
(* ReadIndex reads before it verifies their hashes.  bOpen is not written. *)
(***************************************************************************)
AssetPackReader_Open ==
    /\ LET Header == Disk.Cells[1]
           Error == IF OpenHeaderError # "" THEN OpenHeaderError
                    ELSE IF ReadStringTableError(Disk.Cells, Header) # ""
                    THEN ReadStringTableError(Disk.Cells, Header)
                    ELSE ReadIndexError(Disk.Cells, Header)
           bHeaderRead == OpenHeaderError \in {"", "Header FileSize exceeds actual file size",
                                              "Invalid pack file magic"}
           bStringsRead == OpenHeaderError = "" /\ ReadStringTableError(Disk.Cells, Header) = ""
           bEntriesRead == bStringsRead /\ ReadIndexError(Disk.Cells, Header) \in
                               {"", "Index entries hash mismatch - data corrupted",
                                "Index block hash mismatch with header - data corrupted"}
           IdxHeader == Disk.Cells[Header.IndexOffset + 1]
       IN  /\ m_Impl' =
                [bOpen |-> m_Impl.bOpen \/ Error = "",
                 bFileOpen |-> m_Impl.bFileOpen \/ Disk.Exists,
                 ValidatedFileSize |->
                     IF OpenHeaderError = "" THEN Header.FileSize
                     ELSE IF Disk.Exists /\ Len(Disk.Cells) >= HeaderSize THEN Len(Disk.Cells)
                     ELSE m_Impl.ValidatedFileSize,
                 StringTable |->
                     IF bStringsRead THEN Disk.Cells[Header.StringTableOffset + 1].Strings
                     ELSE m_Impl.StringTable,
                 IndexEntries |-> IF bEntriesRead THEN IdxHeader.Entries ELSE m_Impl.IndexEntries,
                 BulkEntries |-> IF bEntriesRead THEN IdxHeader.BulkEntries ELSE m_Impl.BulkEntries,
                 AssetIdToIndex |->
                     IF Error = "" THEN BuildLookup(IdxHeader.Entries) ELSE m_Impl.AssetIdToIndex,
                 NameHashToIndices |->
                     IF Error = ""
                     THEN BuildNameLookup(IdxHeader.Entries,
                                          Disk.Cells[Header.StringTableOffset + 1].Strings)
                     ELSE m_Impl.NameHashToIndices]
           /\ ReadReturn' = [NoRead EXCEPT !.Call = "Open", !.Error = Error]
    /\ UNCHANGED <<Authored, Compression, Disk, Edits>>
    /\ UNCHANGED notReaderVars

(***************************************************************************)
(* AssetPackReader::Close.                                                 *)
(***************************************************************************)
AssetPackReader_Close ==
    /\ m_Impl' = NoImpl
    /\ ReadReturn' = [NoRead EXCEPT !.Call = "Close"]
    /\ UNCHANGED <<Authored, Compression, Disk, Edits>>
    /\ UNCHANGED notReaderVars

(***************************************************************************)
(* AssetPackReader::GetAssetInfo(Index), Index from 0, and FindAsset(Id).  *)
(***************************************************************************)
GetAssetInfo(Index) ==
    LET Entry == m_Impl.IndexEntries[Index + 1] IN
    [Id |-> Entry.AssetId, AssetKind |-> Entry.AssetKind,
     CookedPayloadType |-> Entry.CookedPayloadType,
     SchemaVersion |-> Entry.CookedSchemaVersion,
     Name |-> IF Entry.NameStringId < Len(m_Impl.StringTable)
              THEN m_Impl.StringTable[Entry.NameStringId + 1] ELSE "",
     VariantKey |-> IF Entry.VariantStringId # NoVariant
                       /\ Entry.VariantStringId < Len(m_Impl.StringTable)
                    THEN m_Impl.StringTable[Entry.VariantStringId + 1] ELSE "",
     BulkChunkCount |-> Entry.BulkCount]

AssetPackReader_FindAsset(Id) ==
    /\ ReadReturn' =
          IF m_Impl.AssetIdToIndex[Id] = 0
          THEN [NoRead EXCEPT !.Call = "FindAsset", !.Id = Id, !.Error = "Asset not found"]
          ELSE [NoRead EXCEPT !.Call = "FindAsset", !.Id = Id,
                              !.Info = GetAssetInfo(m_Impl.AssetIdToIndex[Id] - 1)]
    /\ UNCHANGED <<Authored, Compression, Disk, Edits, m_Impl>>
    /\ UNCHANGED notReaderVars

(***************************************************************************)
(* AssetPackReader::FindAssetsByName: the AssetInfo of every entry filed   *)
(* under the name's hash whose name is Name, in index order.               *)
(***************************************************************************)
AssetPackReader_FindAssetsByName(Name) ==
    LET Indices == SelectSeq(m_Impl.NameHashToIndices[Name],
                             LAMBDA Index : /\ Index < Len(m_Impl.IndexEntries)
                                            /\ GetAssetInfo(Index).Name = Name)
    IN  [k \in 1..Len(Indices) |-> GetAssetInfo(Indices[k])]

(***************************************************************************)
(* AssetManager::FindAsset(Name) and FindAssetVariants(Name) of a manager  *)
(* that has this pack mounted, without a mount point, and no other:        *)
(* Impl::FindPackForAssetByName returns Results[0] of the pack's           *)
(* FindAssetsByName, FindAssetVariants everything it returns.              *)
(***************************************************************************)
AssetManager_FindAsset(Name) ==
    /\ m_Impl.bOpen
    /\ LET Results == AssetPackReader_FindAssetsByName(Name) IN
        ReadReturn' =
            IF Results = <<>>
            THEN [NoRead EXCEPT !.Call = "FindAssetByName", !.Name = Name,
                                !.Error = "Asset not found"]
            ELSE [NoRead EXCEPT !.Call = "FindAssetByName", !.Name = Name,
                                !.Info = Results[1]]
    /\ UNCHANGED <<Authored, Compression, Disk, Edits, m_Impl>>
    /\ UNCHANGED notReaderVars

AssetManager_FindAssetVariants(Name) ==
    /\ m_Impl.bOpen
    /\ ReadReturn' = [NoRead EXCEPT !.Call = "FindAssetVariants", !.Name = Name,
                                   !.Infos = AssetPackReader_FindAssetsByName(Name)]
    /\ UNCHANGED <<Authored, Compression, Disk, Edits, m_Impl>>
    /\ UNCHANGED notReaderVars

\* LoadChunk without the comparison of the chunk's AssetId with the expected one.
LoadChunkAnyAsset(Offset, ExpectedTotalSize, ExpectedUncompressedSize, ExpectedEntry, ExpectedBulkEntry, ExpectedBulkAssetId) ==
    LET Cells == Disk.Cells
        Fail(Error) == [Error |-> Error, Bytes |-> <<>>]
    IN
    IF ~Disk.Exists THEN Fail("Failed to open file for chunk read")
    ELSE IF ~CheckRange(Offset, ExpectedTotalSize, m_Impl.ValidatedFileSize)
    THEN Fail("Chunk offset/size exceeds file bounds")
    ELSE IF ExpectedTotalSize < BlockHeaderSize THEN Fail("Chunk total size too small for header")
    ELSE IF Offset + BlockHeaderSize > Len(Cells) THEN Fail("Failed to read chunk header")
    ELSE LET ChunkHeader == Cells[Offset + 1] IN
    IF ChunkHeader.Magic # "CHNK" THEN Fail("Invalid chunk magic")
    ELSE IF ChunkHeader.Version # 1 THEN Fail("Unsupported chunk version")
    ELSE IF ChunkHeader.SizeUncompressed # ExpectedUncompressedSize
    THEN Fail("Chunk uncompressed size mismatch with index")
    ELSE IF ChunkHeader.SizeCompressed # ExpectedTotalSize - BlockHeaderSize
    THEN Fail("Chunk compressed size mismatch with index")
    ELSE IF ~IsNull(ExpectedEntry) /\ ChunkHeader.ChunkKind # "MainPayload"
    THEN Fail("Chunk kind mismatch - expected MainPayload")
    ELSE IF ~IsNull(ExpectedEntry) /\ ChunkHeader.PayloadType # ExpectedEntry.CookedPayloadType
    THEN Fail("Chunk PayloadType mismatch with index entry")
    ELSE IF ~IsNull(ExpectedEntry) /\ ChunkHeader.SchemaVersion # ExpectedEntry.CookedSchemaVersion
    THEN Fail("Chunk SchemaVersion mismatch with index entry")
    ELSE IF ~IsNull(ExpectedEntry) /\ ChunkHeader.Compression # ExpectedEntry.Compression
    THEN Fail("Chunk Compression mismatch with index entry")
    ELSE IF ~IsNull(ExpectedBulkEntry) /\ ChunkHeader.ChunkKind # "Bulk"
    THEN Fail("Chunk kind mismatch - expected Bulk")
    ELSE IF ~IsNull(ExpectedBulkEntry) /\ ChunkHeader.Compression # ExpectedBulkEntry.Compression
    THEN Fail("Bulk chunk Compression mismatch with bulk entry")
    ELSE IF ChunkHeader.Compression = "None" /\ ChunkHeader.SizeCompressed # ChunkHeader.SizeUncompressed
    THEN Fail("Uncompressed chunk has mismatched sizes")
    ELSE IF Offset + BlockHeaderSize + ChunkHeader.SizeCompressed > Len(Cells)
            \/ \E i \in 1..ChunkHeader.SizeCompressed : Cells[Offset + BlockHeaderSize + i].Magic # ""
    THEN Fail(IF ChunkHeader.Compression = "None" THEN "Failed to read chunk data"
              ELSE "Failed to read chunk compressed data")
    ELSE LET Stored == [i \in 1..ChunkHeader.SizeCompressed |->
                            Cells[Offset + BlockHeaderSize + i].Byte]
             Output == Decompress(Stored, ChunkHeader.SizeUncompressed, ChunkHeader.Compression)
         IN  IF Output.Throws THEN Fail("Decompression failed")
             ELSE IF Output.Bytes # ChunkHeader.Hash THEN Fail("Chunk hash mismatch - data corrupted")
             ELSE [Error |-> "", Bytes |-> Output.Bytes]

(***************************************************************************)
(* Impl::LoadChunk: the chunk at Offset is read through a stream of its    *)
(* own and checked against the sizes of the index and, when given, the     *)
(* index entry, the bulk entry and the parent asset's id; then its bytes   *)
(* are read, decompressed and compared with the header's hash.             *)
(***************************************************************************)
LoadChunk(Offset, ExpectedTotalSize, ExpectedUncompressedSize, ExpectedEntry, ExpectedBulkEntry, ExpectedBulkAssetId) ==
    LET Cells == Disk.Cells
        Fail(Error) == [Error |-> Error, Bytes |-> <<>>]
    IN
    IF ~Disk.Exists THEN Fail("Failed to open file for chunk read")
    ELSE IF ~CheckRange(Offset, ExpectedTotalSize, m_Impl.ValidatedFileSize)
    THEN Fail("Chunk offset/size exceeds file bounds")
    ELSE IF ExpectedTotalSize < BlockHeaderSize THEN Fail("Chunk total size too small for header")
    ELSE IF Offset + BlockHeaderSize > Len(Cells) THEN Fail("Failed to read chunk header")
    ELSE LET ChunkHeader == Cells[Offset + 1] IN
    IF ChunkHeader.Magic # "CHNK" THEN Fail("Invalid chunk magic")
    ELSE IF ChunkHeader.Version # 1 THEN Fail("Unsupported chunk version")
    ELSE IF ChunkHeader.SizeUncompressed # ExpectedUncompressedSize
    THEN Fail("Chunk uncompressed size mismatch with index")
    ELSE IF ChunkHeader.SizeCompressed # ExpectedTotalSize - BlockHeaderSize
    THEN Fail("Chunk compressed size mismatch with index")
    ELSE IF ~IsNull(ExpectedEntry) /\ ChunkHeader.ChunkKind # "MainPayload"
    THEN Fail("Chunk kind mismatch - expected MainPayload")
    ELSE IF ~IsNull(ExpectedEntry) /\ ChunkHeader.AssetId # ExpectedEntry.AssetId
    THEN Fail("Chunk AssetId mismatch with index entry")
    ELSE IF ~IsNull(ExpectedEntry) /\ ChunkHeader.PayloadType # ExpectedEntry.CookedPayloadType
    THEN Fail("Chunk PayloadType mismatch with index entry")
    ELSE IF ~IsNull(ExpectedEntry) /\ ChunkHeader.SchemaVersion # ExpectedEntry.CookedSchemaVersion
    THEN Fail("Chunk SchemaVersion mismatch with index entry")
    ELSE IF ~IsNull(ExpectedEntry) /\ ChunkHeader.Compression # ExpectedEntry.Compression
    THEN Fail("Chunk Compression mismatch with index entry")
    ELSE IF ~IsNull(ExpectedBulkEntry) /\ ChunkHeader.ChunkKind # "Bulk"
    THEN Fail("Chunk kind mismatch - expected Bulk")
    ELSE IF ~IsNull(ExpectedBulkEntry) /\ ChunkHeader.Compression # ExpectedBulkEntry.Compression
    THEN Fail("Bulk chunk Compression mismatch with bulk entry")
    ELSE IF ~IsNull(ExpectedBulkEntry) /\ ExpectedBulkAssetId # 0
            /\ ChunkHeader.AssetId # ExpectedBulkAssetId
    THEN Fail("Bulk chunk AssetId mismatch - chunk belongs to different asset")
    ELSE IF ChunkHeader.Compression = "None" /\ ChunkHeader.SizeCompressed # ChunkHeader.SizeUncompressed
    THEN Fail("Uncompressed chunk has mismatched sizes")
    ELSE IF Offset + BlockHeaderSize + ChunkHeader.SizeCompressed > Len(Cells)
            \/ \E i \in 1..ChunkHeader.SizeCompressed : Cells[Offset + BlockHeaderSize + i].Magic # ""
    THEN Fail(IF ChunkHeader.Compression = "None" THEN "Failed to read chunk data"
              ELSE "Failed to read chunk compressed data")
    ELSE LET Stored == [i \in 1..ChunkHeader.SizeCompressed |->
                            Cells[Offset + BlockHeaderSize + i].Byte]
             Output == Decompress(Stored, ChunkHeader.SizeUncompressed, ChunkHeader.Compression)
         IN  IF Output.Throws THEN Fail("Decompression failed")
             ELSE IF Output.Bytes # ChunkHeader.Hash THEN Fail("Chunk hash mismatch - data corrupted")
             ELSE [Error |-> "", Bytes |-> Output.Bytes]

(***************************************************************************)
(* AssetPackReader::LoadCookedPayload(Id).                                 *)
(***************************************************************************)
AssetPackReader_LoadCookedPayload(Id) ==
    /\ ReadReturn' =
          IF m_Impl.AssetIdToIndex[Id] = 0
          THEN [NoRead EXCEPT !.Call = "LoadCookedPayload", !.Id = Id, !.Error = "Asset not found"]
          ELSE LET Entry == m_Impl.IndexEntries[m_Impl.AssetIdToIndex[Id]]
                   ChunkResult == LoadChunk(Entry.PayloadChunkOffset,
                                            Entry.PayloadChunkSizeCompressed,
                                            Entry.PayloadChunkSizeUncompressed,
                                            Entry, nullptr, 0)
               IN  [NoRead EXCEPT !.Call = "LoadCookedPayload", !.Id = Id,
                                  !.Error = ChunkResult.Error, !.Bytes = ChunkResult.Bytes]
    /\ UNCHANGED <<Authored, Compression, Disk, Edits, m_Impl>>
    /\ UNCHANGED notReaderVars

(***************************************************************************)
(* AssetPackReader::LoadBulkChunk(Id, BulkIndex), BulkIndex from 0.        *)
(***************************************************************************)
AssetPackReader_LoadBulkChunk(Id, BulkIndex) ==
    /\ ReadReturn' =
          LET Result == [NoRead EXCEPT !.Call = "LoadBulkChunk", !.Id = Id,
                                       !.BulkIndex = BulkIndex]
          IN
          IF m_Impl.AssetIdToIndex[Id] = 0 THEN [Result EXCEPT !.Error = "Asset not found"]
          ELSE LET Entry == m_Impl.IndexEntries[m_Impl.AssetIdToIndex[Id]]
                   GlobalBulkIndex == Entry.BulkFirstIndex + BulkIndex
               IN  IF ~Entry.bHasBulk \/ BulkIndex >= Entry.BulkCount
                   THEN [Result EXCEPT !.Error = "Bulk chunk index out of range"]
                   ELSE IF GlobalBulkIndex >= Len(m_Impl.BulkEntries)
                   THEN [Result EXCEPT !.Error = "Invalid bulk entry index"]
                   ELSE LET BulkEntry == m_Impl.BulkEntries[GlobalBulkIndex + 1] IN
                        IF BulkEntry.SubIndex # BulkIndex
                        THEN [Result EXCEPT !.Error = "Bulk SubIndex mismatch"]
                        ELSE LET ChunkResult == LoadChunk(BulkEntry.ChunkOffset,
                                                          BulkEntry.SizeCompressed,
                                                          BulkEntry.SizeUncompressed,
                                                          nullptr, BulkEntry, Entry.AssetId)
                             IN  [Result EXCEPT !.Error = ChunkResult.Error,
                                                !.Bytes = ChunkResult.Bytes]
    /\ UNCHANGED <<Authored, Compression, Disk, Edits, m_Impl>>
    /\ UNCHANGED notReaderVars

ReaderNext ==
    \/ AssetPackWriter_Write
    \/ \E n \in 0..(Len(Disk.Cells) - 1) : Truncate(n)
    \/ \E n \in {Len(Disk.Cells) - 1, Len(Disk.Cells) + 1} :
          Len(Disk.Cells) >= HeaderSize /\ SetFileSize(n)
    \/ \E o \in 1..Len(Disk.Cells) :
          \E Header \in IF Disk.Cells[o].Magic = "CHNK" THEN ChunkHeaderEdits(Disk.Cells[o]) ELSE {} :
              OverwriteChunkHeader(o, Header)
    \/ \E o \in 1..Len(Disk.Cells) : OverwriteByte(o)
    \/ \E Index \in IF Len(Disk.Cells) > HeaderSize /\ Disk.Cells[Len(Disk.Cells)].Magic = "INDX"
                    THEN IndexEdits(Disk.Cells[Len(Disk.Cells)]) ELSE {} : ReplaceIndex(Index)
    \/ AssetPackReader_Open
    \/ AssetPackReader_Close
    \/ \E Id \in AuthoredIds : AssetPackReader_FindAsset(Id)
    \/ \E Name \in PackNames : AssetManager_FindAsset(Name)
    \/ \E Name \in PackNames : AssetManager_FindAssetVariants(Name)
    \/ \E Id \in AuthoredIds : AssetPackReader_LoadCookedPayload(Id)
    \/ \E Id \in AuthoredIds, BulkIndex \in 0..Len(BulkChunks) : AssetPackReader_LoadBulkChunk(Id, BulkIndex)

(***************************************************************************)
(* IncrementalCache's rebuild detection (src/Pipeline/IncrementalCache.cpp)*)
(* for one asset: its row in the cache, its recorded dependencies, and the *)
(* dependency files on disk.                                               *)
(***************************************************************************)
DepPaths == 1..NumDepPaths
FileHashValues == 1..NumFileHashes
NotRecorded == -1

\* No file at the path; HashFile gives 0 for a file it cannot open.
NoSuchFile == 0

\* CacheEntry Entry: the members' initial values, bValid = false.
DefaultEntry ==
    [SourceHash |-> 0, DependenciesHash |-> 0, BuildOptionsHash |-> 0,
     ImporterName |-> "", ImporterPluginVersion |-> "",
     CookerName |-> "", CookerPluginVersion |-> "", bValid |-> FALSE]

\* The entries a build makes: one, and the ones that differ from it in one member.
BuiltEntry ==
    [SourceHash |-> 1, DependenciesHash |-> 1, BuildOptionsHash |-> 1,
     ImporterName |-> "importer", ImporterPluginVersion |-> "1.0",
     CookerName |-> "cooker", CookerPluginVersion |-> "1.0", bValid |-> TRUE]

BuiltEntries ==
    {BuiltEntry,
     [BuiltEntry EXCEPT !.SourceHash = 2],
     [BuiltEntry EXCEPT !.DependenciesHash = 2],
     [BuiltEntry EXCEPT !.BuildOptionsHash = 2],
     [BuiltEntry EXCEPT !.ImporterName = "importer2"],
     [BuiltEntry EXCEPT !.ImporterPluginVersion = "2.0"],
     [BuiltEntry EXCEPT !.CookerName = "cooker2"],
     [BuiltEntry EXCEPT !.CookerPluginVersion = "2.0"]}

NoRebuild == [Call |-> "none", Entry |-> DefaultEntry, Result |-> FALSE]

RebuildInit ==
    /\ CacheRow = DefaultEntry
    /\ DependencyRows = [Path \in DepPaths |-> NotRecorded]
    /\ DiskFiles = [Path \in DepPaths |-> 1]
    /\ RebuildReturn = NoRebuild

\* HashFile(Path): the hash of the file's contents, 0 when it cannot be opened.
HashFile(Path) == DiskFiles[Path]

(***************************************************************************)
(* IncrementalCache::Put(Entry) and Remove(Id), which takes the            *)
(* dependencies with the row.                                              *)
(***************************************************************************)
IncrementalCache_Put(Entry) ==
    /\ CacheRow' = Entry
    /\ RebuildReturn' = NoRebuild
    /\ UNCHANGED <<DependencyRows, DiskFiles>>
    /\ UNCHANGED notRebuildVars

IncrementalCache_Remove ==
    /\ CacheRow' = DefaultEntry
    /\ DependencyRows' = [Path \in DepPaths |-> NotRecorded]
    /\ RebuildReturn' = NoRebuild
    /\ UNCHANGED DiskFiles
    /\ UNCHANGED notRebuildVars

(***************************************************************************)
(* IncrementalCache::AddDependency(Id, DependencyPath): the file's hash    *)
(* now is recorded, 0 when there is no such file.                          *)
(***************************************************************************)
AddDependency(Path) ==
    /\ DependencyRows' = [DependencyRows EXCEPT ![Path] = HashFile(Path)]
    /\ RebuildReturn' = NoRebuild
    /\ UNCHANGED <<CacheRow, DiskFiles>>
    /\ UNCHANGED notRebuildVars

\* A dependency file is written with other contents, or deleted.
WriteDependencyFile(Path, Hash) ==
    /\ DiskFiles[Path] # Hash
    /\ DiskFiles' = [DiskFiles EXCEPT ![Path] = Hash]
    /\ RebuildReturn' = NoRebuild
    /\ UNCHANGED <<CacheRow, DependencyRows>>
    /\ UNCHANGED notRebuildVars

\* NeedsRebuild that compares every member but the cooker's plugin version.
NeedsRebuildCookerByName(NewEntry, OldEntry) ==
    \/ ~OldEntry.bValid
    \/ NewEntry.SourceHash # OldEntry.SourceHash
    \/ NewEntry.DependenciesHash # OldEntry.DependenciesHash
    \/ NewEntry.BuildOptionsHash # OldEntry.BuildOptionsHash
    \/ NewEntry.ImporterName # OldEntry.ImporterName
    \/ NewEntry.ImporterPluginVersion # OldEntry.ImporterPluginVersion
    \/ NewEntry.CookerName # OldEntry.CookerName

(***************************************************************************)
(* IncrementalCache::NeedsRebuild(NewEntry, OldEntry).                     *)
(***************************************************************************)
NeedsRebuild(NewEntry, OldEntry) ==
    \/ ~OldEntry.bValid
    \/ NewEntry.SourceHash # OldEntry.SourceHash
    \/ NewEntry.DependenciesHash # OldEntry.DependenciesHash
    \/ NewEntry.BuildOptionsHash # OldEntry.BuildOptionsHash
    \/ NewEntry.ImporterName # OldEntry.ImporterName
    \/ NewEntry.ImporterPluginVersion # OldEntry.ImporterPluginVersion
    \/ NewEntry.CookerName # OldEntry.CookerName
    \/ NewEntry.CookerPluginVersion # OldEntry.CookerPluginVersion

(***************************************************************************)
(* IncrementalCache::HasDependencyChanged(Id): a recorded dependency's     *)
(* file does not exist, or its hash now is not the recorded one.           *)
(***************************************************************************)
HasDependencyChanged ==
    \E Path \in DepPaths :
        /\ DependencyRows[Path] # NotRecorded
        /\ \/ DiskFiles[Path] = NoSuchFile
           \/ HashFile(Path) # DependencyRows[Path]

(***************************************************************************)
(* IncrementalCache::NeedsRebuildWithDependencies(Id, CurrentSourceHash,   *)
(* CurrentBuildOptionsHash, ImporterName, ImporterVersion, CookerName,     *)
(* CookerVersion), the arguments given as the members of Current.          *)
(***************************************************************************)
NeedsRebuildWithDependencies(Current, OldEntry) ==
    \/ ~OldEntry.bValid
    \/ Current.SourceHash # OldEntry.SourceHash
    \/ Current.BuildOptionsHash # OldEntry.BuildOptionsHash
    \/ Current.ImporterName # OldEntry.ImporterName
    \/ Current.ImporterPluginVersion # OldEntry.ImporterPluginVersion
    \/ Current.CookerName # OldEntry.CookerName
    \/ Current.CookerPluginVersion # OldEntry.CookerPluginVersion
    \/ HasDependencyChanged

\* The asset's row is read with Get(Id) and NeedsRebuild called with it.
CallNeedsRebuild(NewEntry) ==
    /\ RebuildReturn' = [Call |-> "NeedsRebuild", Entry |-> NewEntry,
                         Result |-> NeedsRebuild(NewEntry, CacheRow)]
    /\ UNCHANGED <<CacheRow, DependencyRows, DiskFiles>>
    /\ UNCHANGED notRebuildVars

CallNeedsRebuildWithDependencies(Current) ==
    /\ RebuildReturn' = [Call |-> "NeedsRebuildWithDependencies", Entry |-> Current,
                         Result |-> NeedsRebuildWithDependencies(Current, CacheRow)]
    /\ UNCHANGED <<CacheRow, DependencyRows, DiskFiles>>
    /\ UNCHANGED notRebuildVars

RebuildNext ==
    \/ \E Entry \in BuiltEntries : IncrementalCache_Put(Entry)
    \/ IncrementalCache_Remove
    \/ \E Path \in DepPaths : AddDependency(Path)
    \/ \E Path \in DepPaths, Hash \in FileHashValues \cup {NoSuchFile} :
          WriteDependencyFile(Path, Hash)
    \/ \E NewEntry \in BuiltEntries : CallNeedsRebuild(NewEntry)
    \/ \E Current \in BuiltEntries : CallNeedsRebuildWithDependencies(Current)

(***************************************************************************)
(* AssetPipelineEngine batch builds (src/Pipeline/AssetPipeline.cpp).  A   *)
(* source file is its content and what the plugins make of it: whether an  *)
(* importer takes it, whether Import returns true, how many items it       *)
(* yields and how many of them cook.  Content 0 is the empty file.  The    *)
(* source roots hold NumSources files, so that ScanSources finds some.     *)
(***************************************************************************)
SourceUris == 1..NumSources
Contents == 0..NumContents
NotCached == -1
Outcomes ==
    {[Importer |-> FALSE, bImported |-> FALSE, Items |-> 0, Cooked |-> 0],
     [Importer |-> TRUE, bImported |-> FALSE, Items |-> 0, Cooked |-> 0]}
    \cup UNION {{[Importer |-> TRUE, bImported |-> TRUE, Items |-> n, Cooked |-> c] :
                    c \in 0..n} : n \in 0..MaxItems}
NoBuild ==
    [Call |-> "none", bSuccess |-> FALSE, AssetsBuilt |-> 0, AssetsSkipped |-> 0,
     AssetsFailed |-> 0, Errors |-> <<>>, Warnings |-> <<>>, Processed |-> <<>>,
     Written |-> <<>>, Write |-> "none", Files |-> <<>>, Prev |-> <<>>, Built |-> <<>>]

\* An engine just initialized, over the source tree Tree: nothing built or cached.
AssetPipelineEngine_Initialize(Tree) ==
    /\ SourceTree = Tree
    /\ m_BuildCache = [u \in SourceUris |-> NotCached]
    /\ OutputPack = [Exists |-> FALSE, Readable |-> FALSE, Assets |-> <<>>]
    /\ BuildReturn = NoBuild
    /\ LastBuild = [Call |-> "none", Files |-> <<>>, Counts |-> <<>>]
    /\ BuiltHash = [u \in SourceUris |-> NotCached]
    /\ Modifications = 0

BuildInit == \E Tree \in [SourceUris -> [Content : Contents, Outcome : Outcomes]] :
                 AssetPipelineEngine_Initialize(Tree)

BuildParked ==
    AssetPipelineEngine_Initialize(
        [u \in SourceUris |->
            [Content |-> 0,
             Outcome |-> [Importer |-> FALSE, bImported |-> FALSE, Items |-> 0, Cooked |-> 0]]])

\* XXH3_64bits of a file's content: no two contents of the model share a hash.
XXH3_64bits(Content) == 10 + Content

\* Impl::ComputeFileHash: 0 for an empty file, else the hash of the content.
ComputeFileHash(Content) == IF Content <= 0 THEN 0 ELSE XXH3_64bits(Content)

\* Impl::ScanSources: a SourceRef for every regular file under the source roots.
ScanSources == [u \in SourceUris |-> [Uri |-> u, ContentHash |-> ComputeFileHash(SourceTree[u].Content)]]

\* IncrementalCache::IsUpToDate with the hash of another content taken for equal.
IsUpToDateByUri(Cache, Uri, ContentHash) == Cache[Uri] # NotCached

\* IncrementalCache::IsUpToDate.
IsUpToDate(Cache, Uri, ContentHash) == Cache[Uri] # NotCached /\ Cache[Uri] = ContentHash

\* IncrementalCache::Update.
Update(Cache, Uri, ContentHash) == [Cache EXCEPT ![Uri] = ContentHash]

(***************************************************************************)
(* Impl::ProcessSource: the assets added to the writer (their number is    *)
(* the value returned), and the errors and warnings logged.                *)
(***************************************************************************)
ProcessSource(Source) ==
    LET f == SourceTree[Source.Uri].Outcome
    IN  IF ~f.Importer
        THEN [Assets |-> <<>>, Errors |-> <<>>, Warnings |-> <<<<"No importer", Source.Uri>>>>]
        ELSE IF ~f.bImported
        THEN [Assets |-> <<>>, Errors |-> <<<<"Import failed", Source.Uri>>>>, Warnings |-> <<>>]
        ELSE IF f.Items = 0
        THEN [Assets |-> <<>>, Errors |-> <<>>, Warnings |-> <<<<"No items", Source.Uri>>>>]
        ELSE [Assets |-> [i \in 1..f.Cooked |-> <<Source.Uri, Source.ContentHash, i>>],
              Errors |-> [i \in 1..(f.Items - f.Cooked) |-> <<"Cook failed", Source.Uri>>],
              Warnings |-> <<>>]

\* The loop over the sources stopping at the first source that yields no asset.
RECURSIVE ProcessSourcesUntilFailure(_, _)
ProcessSourcesUntilFailure(Sources, Acc) ==
    IF Sources = <<>> THEN Acc
    ELSE LET Source == Head(Sources)
             r == ProcessSource(Source)
             Count == Len(r.Assets)
             Step == [AssetsBuilt |-> Acc.AssetsBuilt + Count,
                      AssetsFailed |-> Acc.AssetsFailed + (IF Count > 0 THEN 0 ELSE 1),
                      Errors |-> Acc.Errors \o r.Errors,
                      Warnings |-> Acc.Warnings \o r.Warnings,
                      Assets |-> Acc.Assets \o r.Assets,
                      Cache |-> IF Count > 0
                                THEN Update(Acc.Cache, Source.Uri, Source.ContentHash)
                                ELSE Acc.Cache,
                      Processed |-> Append(Acc.Processed, Source.Uri)]
         IN  IF Count > 0 THEN ProcessSourcesUntilFailure(Tail(Sources), Step) ELSE Step

(***************************************************************************)
(* "Process each source": the loop of BuildAll and of BuildChanged over    *)
(* the sources, from the counts, logs, writer and cache in Acc.            *)
(***************************************************************************)
RECURSIVE ProcessSources(_, _)
ProcessSources(Sources, Acc) ==
    IF Sources = <<>> THEN Acc
    ELSE LET Source == Head(Sources)
             r == ProcessSource(Source)
             Count == Len(r.Assets)
         IN  ProcessSources(Tail(Sources),
                 [AssetsBuilt |-> Acc.AssetsBuilt + Count,
                  AssetsFailed |-> Acc.AssetsFailed + (IF Count > 0 THEN 0 ELSE 1),
                  Errors |-> Acc.Errors \o r.Errors,
                  Warnings |-> Acc.Warnings \o r.Warnings,
                  Assets |-> Acc.Assets \o r.Assets,
                  Cache |-> IF Count > 0
                            THEN Update(Acc.Cache, Source.Uri, Source.ContentHash)
                            ELSE Acc.Cache,
                  Processed |-> Append(Acc.Processed, Source.Uri)])

\* The loop's starting point: BuildResult Result, ClearLogs, a new writer.
NewBuild ==
    [AssetsBuilt |-> 0, AssetsFailed |-> 0, Errors |-> <<>>, Warnings |-> <<>>,
     Assets |-> <<>>, Cache |-> m_BuildCache, Processed |-> <<>>]

(***************************************************************************)
(* Writer.Write / Writer.AppendUpdate on the output pack with Assets       *)
(* queued: an error leaves the file alone; success leaves a pack whose     *)
(* index holds the queued assets; and, the stream never being tested, a    *)
(* write that failed leaves a damaged file (or the old one) and success.   *)
(***************************************************************************)
WriterResults(Assets) ==
    {[Write |-> "Error", File |-> OutputPack],
     [Write |-> "Ok", File |-> [Exists |-> TRUE, Readable |-> TRUE, Assets |-> Assets]],
     [Write |-> "Failed", File |-> [Exists |-> TRUE, Readable |-> FALSE, Assets |-> <<>>]]}
    \cup IF OutputPack.Exists THEN {[Write |-> "Failed", File |-> OutputPack]} ELSE {}

\* The end of both builds: the pack is written, the cache saved, the result filled in.
FinishBuild(Call, Acc, Skipped) ==
    \E w \in WriterResults(Acc.Assets) :
        LET Errors == IF w.Write = "Error"
                      THEN Append(Acc.Errors, <<"Failed to write pack", 0>>)
                      ELSE Acc.Errors
        IN  /\ OutputPack' = w.File
            /\ m_BuildCache' = Acc.Cache
            /\ BuildReturn' = [Call |-> Call, bSuccess |-> Errors = <<>>,
                               AssetsBuilt |-> Acc.AssetsBuilt, AssetsSkipped |-> Skipped,
                               AssetsFailed |-> Acc.AssetsFailed, Errors |-> Errors,
                               Warnings |-> Acc.Warnings, Processed |-> Acc.Processed,
                               Written |-> Acc.Assets, Write |-> w.Write,
                               Files |-> SourceTree, Prev |-> LastBuild,
                               Built |-> BuiltHash]

\* What the builds record for the claims: the last build and the hashes built.
Record(Call, Acc) ==
    /\ LastBuild' = [Call |-> Call,
                     Files |-> [u \in SourceUris |-> [Content |-> SourceTree[u].Content]],
                     Counts |-> [u \in SourceUris |->
                                    Len(SelectSeq(Acc.Assets, LAMBDA a : a[1] = u))]]
    /\ BuiltHash' = [u \in SourceUris |->
                        IF \E i \in 1..Len(Acc.Assets) : Acc.Assets[i][1] = u
                        THEN ComputeFileHash(SourceTree[u].Content) ELSE BuiltHash[u]]

\* AssetPipelineEngine::BuildAll.
BuildAll ==
    /\ LET Sources == ScanSources
           Acc == ProcessSources(Sources, NewBuild)
       IN  /\ FinishBuild("BuildAll", Acc, 0)
           /\ Record("BuildAll", Acc)
    /\ UNCHANGED <<SourceTree, Modifications>>
    /\ UNCHANGED notBuildVars

\* AssetPipelineEngine::BuildChanged.
BuildChanged ==
    /\ LET Sources == ScanSources
           ChangedSources ==
               SelectSeq(Sources, LAMBDA S : ~IsUpToDate(m_BuildCache, S.Uri, S.ContentHash))
           Skipped == Len(Sources) - Len(ChangedSources)
           Acc == ProcessSources(ChangedSources, NewBuild)
       IN  /\ IF ChangedSources = <<>>
              THEN /\ BuildReturn' = [NoBuild EXCEPT !.Call = "BuildChanged",
                                         !.bSuccess = TRUE, !.AssetsSkipped = Skipped,
                                         !.Files = SourceTree, !.Prev = LastBuild,
                                         !.Built = BuiltHash]
                   /\ UNCHANGED <<OutputPack, m_BuildCache>>
              ELSE FinishBuild("BuildChanged", Acc, Skipped)
           /\ Record("BuildChanged", Acc)
    /\ UNCHANGED <<SourceTree, Modifications>>
    /\ UNCHANGED notBuildVars

\* A source file is given another content; the plugins may take it differently.
ModifySource(Uri, Content, Outcome) ==
    /\ Modifications < MaxModifications
    /\ Modifications' = Modifications + 1
    /\ Content # SourceTree[Uri].Content
    /\ SourceTree' = [SourceTree EXCEPT ![Uri] = [Content |-> Content, Outcome |-> Outcome]]
    /\ BuildReturn' = NoBuild
    /\ UNCHANGED <<m_BuildCache, OutputPack, LastBuild, BuiltHash>>
    /\ UNCHANGED notBuildVars

BuildNext ==
    \/ BuildAll
    \/ BuildChanged
    \/ \E Uri \in SourceUris, Content \in Contents, Outcome \in Outcomes :
          ModifySource(Uri, Content, Outcome)

(***************************************************************************)
(* Each specification runs one component; the others stay as constructed.  *)
(***************************************************************************)
CacheParked ==
    /\ CacheInit
    /\ m_Config.bEvictOnlyUnreferenced

(***************************************************************************)
(* The loader on its own.  In SpecLoaderFair every worker thread and every *)
(* blocked client thread keeps being scheduled: a step of theirs that      *)
(* stays possible is eventually taken.  Clients are under no obligation.   *)
(***************************************************************************)
InitLoader == LoaderInit /\ CacheParked /\ PipelineInit /\ RegistryInit /\ ManagerParked /\ PackInit /\ TokenInit /\ FactoryInit /\ ReaderParked /\ RebuildInit /\ BuildParked

SpecLoader == InitLoader /\ [][LoaderNext]_vars

SpecLoaderFair ==
    /\ InitLoader
    /\ [][LoaderNext]_vars
    /\ \A w \in WorkerIds : WF_vars(WorkerThread(w))
    /\ WF_vars(WaitReturn)
    /\ WF_vars(WaitAllReturn)
    /\ WF_vars(ShutdownReturn)

(***************************************************************************)
(* The cache on its own, with concurrent callers and with sequential ones. *)
(* Both eviction policies are run.                                         *)
(***************************************************************************)
InitCache == CacheInit /\ LoaderInit /\ PipelineInit /\ RegistryInit /\ ManagerParked /\ PackInit /\ TokenInit /\ FactoryInit /\ ReaderParked /\ RebuildInit /\ BuildParked

SpecCache == InitCache /\ [][CacheNext]_vars
SpecCacheSequential == InitCache /\ [][CacheNextSequential]_vars

(***************************************************************************)
(* C1: every request enqueued with LoadAsync eventually has its            *)
(* per-request promise fulfilled (so that Wait on its handle returns),     *)
(* whatever the outcome: load success, load error, cancellation seen by    *)
(* the worker before the load, or removal from the queue by CancelAll.     *)
(***************************************************************************)
C1_EveryRequestPromiseFulfilled ==
    \A Id \in RequestIds : (Id \in DOMAIN Requests) ~> (Id \in Promise)

(***************************************************************************)
(* C2: once no further requests are enqueued, a WaitAll call eventually    *)
(* returns, every enqueued request having been completed, cancelled or     *)
(* dropped by then.                                                        *)
(***************************************************************************)
C2_WaitAllReturns ==
    (Waiter.pc = "WaitAll") ~> (Waiter.pc = "idle")

(***************************************************************************)
(* The runtime pipeline on its own.                                        *)
(***************************************************************************)
InitPipeline == (\E bEnableSourceAssets \in BOOLEAN : AssetManager_AssetManager(bEnableSourceAssets)) /\ LoaderInit /\ CacheParked /\ RegistryInit /\ ManagerParked /\ PackInit /\ TokenInit /\ FactoryInit /\ ReaderParked /\ RebuildInit /\ BuildParked

SpecPipeline == InitPipeline /\ [][PipelineNext]_vars

(***************************************************************************)
(* The payload registry on its own.                                        *)
(***************************************************************************)
InitRegistry == RegistryInit /\ LoaderInit /\ CacheParked /\ PipelineInit /\ ManagerParked /\ PackInit /\ TokenInit /\ FactoryInit /\ ReaderParked /\ RebuildInit /\ BuildParked

SpecRegistry == InitRegistry /\ [][RegistryNext]_vars

(***************************************************************************)
(* The asset manager's mounted packs on their own.                         *)
(***************************************************************************)
InitManager == ManagerInit /\ LoaderInit /\ CacheParked /\ PipelineInit /\ RegistryInit /\ PackInit /\ TokenInit /\ FactoryInit /\ ReaderParked /\ RebuildInit /\ BuildParked

SpecManager == InitManager /\ [][ManagerNext]_vars

(***************************************************************************)
(* The pack writer on its own, working on one pack path.                   *)
(***************************************************************************)
InitPack == PackInit /\ LoaderInit /\ CacheParked /\ PipelineInit /\ RegistryInit /\ ManagerParked /\ TokenInit /\ FactoryInit /\ ReaderParked /\ RebuildInit /\ BuildParked

SpecPack == InitPack /\ [][PackNext]_vars

(***************************************************************************)
(* Entries some thread holds an AssetHandle to.                            *)
(***************************************************************************)
HeldEntries == {CacheThreads[t].Handle : t \in CacheThreadIds} \ {NoEntry}

(***************************************************************************)
(* C3: while at least one AssetHandle holds a cache entry, that entry is   *)
(* the one stored in the cache under its key and GetMemoryUsage() covers   *)
(* the SizeBytes of the held entries, after any sequence of Insert, Get,   *)
(* Remove, ClearUnreferenced and Evict calls (eviction restricted to       *)
(* unreferenced entries, as configured by default).                        *)
(***************************************************************************)
C3_HeldEntryStaysCached ==
    m_Config.bEvictOnlyUnreferenced =>
        /\ \A e \in HeldEntries : m_Cache[CacheEntries[e].Key] = e
        /\ m_MemoryUsage >= SumSizeBytes(HeldEntries)

(***************************************************************************)
(* C4: with Get running concurrently with Evict, Remove and                *)
(* ClearUnreferenced, none of these three removes an entry for which Get   *)
(* has handed out a handle that is still held.                             *)
(***************************************************************************)
C4_GetHandleEntryNotRemoved ==
    \A t \in CacheThreadIds :
        (CacheThreads[t].Handle # NoEntry /\ CacheThreads[t].From = "Get") =>
            CacheEntries[CacheThreads[t].Handle].RemovedBy
                \notin {"Evict", "Remove", "ClearUnreferenced"}

(***************************************************************************)
(* C5: with concurrent ProcessSource calls for one logical name, the       *)
(* source is imported and cooked at most once, and all callers that get a  *)
(* result for the name get the result of the same cook.                    *)
(***************************************************************************)
C5_CookedAtMostOnce ==
    /\ \A n \in LogicalNames : CookCount[n] <= 1
    /\ \A r1, r2 \in Returned :
          (r1.Name = r2.Name /\ r1.Kind = "Cooked" /\ r2.Kind = "Cooked")
              => r1.Cook = r2.Cook

(***************************************************************************)
(* C6: once Freeze has returned the registry's containers are never        *)
(* modified again, even by a Register call that started before Freeze,     *)
(* and no lock-free Find runs while a Register call is inside its locked   *)
(* section.                                                                *)
(***************************************************************************)
C6_NoMutationAfterFreeze ==
    /\ bFrozen => registryMaps = FrozenMaps
    /\ ~ \E t, u \in RegistryThreadIds :
            /\ RegistryThreads[t].pc = "FindLockFree"
            /\ RegistryThreads[u].pc = "Registering"

(***************************************************************************)
(* C7: mutations of the mounted-pack list exclude loads' use of it: a      *)
(* LoadAnyById that is about to use the reader it found never holds a      *)
(* reader that has been removed from the list or replaced.                 *)
(***************************************************************************)
C7_LoadNeverUsesRemovedReader ==
    \A t \in LoadThreadIds :
        LoadThreads[t].pc = "LoadCookedPayload" => LoadThreads[t].Reader \in LiveReaders


(***************************************************************************)
(* What a client that opens File sees of the assets in Queued: the pack    *)
(* opens, holds as many assets as Queued, and each of them is found and    *)
(* loads with its own payload.                                             *)
(***************************************************************************)
ShowsPack(File, Queued) ==
    LET Reader == Open(File)
    IN  /\ Reader.Ok
        /\ Len(Reader.IndexEntries) = Len(Queued)
        /\ \A i \in 1..Len(Queued) :
              /\ FindAsset(Reader, Queued[i])
              /\ ReaderLoadCookedPayload(Reader, File, Queued[i]) =
                     [Ok |-> TRUE, Bytes |-> Queued[i]]

(***************************************************************************)
(* C8: during and after Write(path), also when Write fails or is           *)
(* interrupted at any step, the file at the destination path is absent or  *)
(* as it was before the call, or it is the complete new pack: a partially  *)
(* written pack is never visible at the destination.                       *)
(***************************************************************************)
C8_DestinationNeverPartial ==
    Before.Target = "Temp" =>
        \/ OutputFile = Before.File
        \/ ShowsPack(OutputFile, Before.Assets)

(***************************************************************************)
(* C9: after a Write of a pack holding asset X and then an AppendUpdate of *)
(* the same file with asset Y queued, opening the pack shows both X and Y  *)
(* (the asset count is 2, both are found and load), and the header's       *)
(* PreviousIndexOffset is the offset of the index the Write wrote.         *)
(***************************************************************************)
C9_AppendShowsBothAssets ==
    \A X, Y \in PackAssetIds :
        LET n == Len(History)
            Reader == Open(OutputFile)
        IN  (/\ X # Y
             /\ WriterCall.pc = "idle"
             /\ n >= 2
             /\ History[n - 1].Call = "Write"
             /\ History[n - 1].Assets = <<X>>
             /\ History[n - 1].Result = "Ok"
             /\ ~History[n - 1].Failed
             /\ History[n].Call = "AppendUpdate"
             /\ Y \in Range(History[n].Assets)
             /\ History[n].Result = "Ok"
             /\ ~History[n].Failed)
            => /\ ShowsPack(OutputFile, <<X, Y>>)
               /\ Reader.Header.PreviousIndexOffset = History[n - 1].IndexOffset

(***************************************************************************)
(* C10: AppendUpdate only appends after the existing content and rewrites  *)
(* the pack header.  From the start of an AppendUpdate of an existing file *)
(* on, every cell of the old file after the header is where it was and as  *)
(* it was (the previous index block among them), the file is no shorter,   *)
(* a rewritten header records the old header's IndexOffset and IndexSize   *)
(* as the previous index and points past the old content, and so does      *)
(* every index header appended.                                            *)
(***************************************************************************)
C10_AppendUpdateOnlyAppends ==
    Before.Target = "Output" =>
        LET Old == Before.File.Cells
            New == OutputFile.Cells
        IN  /\ OutputFile.Exists
            /\ Len(New) >= Len(Old)
            /\ \A i \in (HeaderSize + 1)..Len(Old) : New[i] = Old[i]
            /\ Len(Old) >= HeaderSize =>
                  /\ \/ New[1] = Old[1]
                     \/ /\ New[1].Magic = "SNPAK"
                        /\ New[1].PreviousIndexOffset = Old[1].IndexOffset
                        /\ New[1].PreviousIndexSize = Old[1].IndexSize
                        /\ New[1].IndexOffset >= Len(Old)
                  /\ \A i \in (Len(Old) + 1)..Len(New) :
                        New[i].Magic = "INDX" =>
                            /\ New[i].PreviousIndexOffset = Old[1].IndexOffset
                            /\ New[i].PreviousIndexSize = Old[1].IndexSize

\* An AppendUpdate of a pack that had an index has returned, every write done.
C10_Witness ==
    /\ Before.Target = "Output"
    /\ WriterCall.pc = "idle"
    /\ Len(History) >= 1
    /\ History[Len(History)].Call = "AppendUpdate"
    /\ History[Len(History)].Result = "Ok"
    /\ ~History[Len(History)].Failed
    /\ Before.File.Cells[1].IndexSize > 0
    /\ Len(OutputFile.Cells) > Len(Before.File.Cells)
    /\ OutputFile.Cells[1].PreviousIndexOffset = Before.File.Cells[1].IndexOffset
    /\ OutputFile.Cells[1].IndexOffset > Before.File.Cells[1].IndexOffset

(***************************************************************************)
(* C11: Evict removes an entry only if the time since its LastAccess is at *)
(* least MinAgeBeforeEviction and, when bEvictOnlyUnreferenced is set, its *)
(* RefCount is 0.  In particular an entry whose LastAccess is the present  *)
(* instant (one inserted immediately before) is not evicted by the         *)
(* eviction the next Insert triggers.                                      *)
(***************************************************************************)
C11_EvictGate ==
    [][\A e \in DOMAIN CacheEntries :
          (CacheEntries[e].RemovedBy # "Evict" /\ CacheEntries'[e].RemovedBy = "Evict")
              => /\ CacheNow - CacheEntries[e].LastAccess >= MinAgeBeforeEviction
                 /\ CacheEntries[e].LastAccess < CacheNow
                 /\ m_Config.bEvictOnlyUnreferenced => CacheEntries[e].RefCount = 0]_vars

\* Evict has evicted an entry and left a younger one in the cache.
C11_Witness ==
    \E e, f \in DOMAIN CacheEntries :
        /\ CacheEntries[e].RemovedBy = "Evict"
        /\ \E k \in CacheKeys : m_Cache[k] = f
        /\ CacheNow - CacheEntries[f].LastAccess < MinAgeBeforeEviction


(***************************************************************************)
(* C12: when InsertEntry calls Evict because the usage plus the new        *)
(* entry's size is above the eviction threshold, then on Evict's return    *)
(* either the usage is at most 70% of MaxMemoryBytes or no cached entry    *)
(* is eligible for eviction (old enough and, when only unreferenced        *)
(* entries may go, unreferenced).                                          *)
(***************************************************************************)
EligibleForEviction(Table, e) ==
    /\ CacheNow - Table[e].LastAccess >= MinAgeBeforeEviction
    /\ m_Config.bEvictOnlyUnreferenced => Table[e].RefCount = 0

C12_EvictReachesTargetOrExhausts ==
    [][\A t \in CacheThreadIds :
          (/\ CacheThreads[t].pc = "idle"
           /\ CacheThreads'[t].pc = "InsertEntry"
           /\ m_MemoryUsage + CacheEntries'[CacheThreads'[t].Entry].SizeBytes
                  > EvictionThresholdBytes)
              => \/ 10 * m_MemoryUsage' <= 7 * MaxMemoryBytes
                 \/ \A k \in CacheKeys :
                        m_Cache'[k] # NoEntry
                            => ~EligibleForEviction(CacheEntries', m_Cache'[k])]_vars

(***************************************************************************)
(* C13: a Remove call that returns true found the key's entry with         *)
(* RefCount 0 and took it out of the map, the LRU list and the memory      *)
(* usage; a Remove call that returns false left the entries, the map, the  *)
(* LRU order and the memory usage as they were.                            *)
(***************************************************************************)
C13_RemoveOnlyUnreferenced ==
    [][\A t \in CacheThreadIds :
          (CacheThreads[t].pc = "idle" /\ CacheThreads'[t].pc = "Remove")
              => IF CacheThreads'[t].Result
                 THEN \E k \in CacheKeys :
                        /\ m_Cache[k] # NoEntry
                        /\ CacheEntries[m_Cache[k]].RefCount = 0
                        /\ m_Cache' = [m_Cache EXCEPT ![k] = NoEntry]
                        /\ m_LruList' = LruErase(m_LruList, {m_Cache[k]})
                        /\ m_MemoryUsage' = m_MemoryUsage - CacheEntries[m_Cache[k]].SizeBytes
                 ELSE UNCHANGED <<CacheEntries, m_Cache, m_LruList, m_MemoryUsage>>]_vars

\* One Remove has returned true while another has returned false for a key
\* whose entry is referenced.
C13_Witness ==
    \E t, u \in CacheThreadIds :
        /\ CacheThreads[t].pc = "Remove" /\ CacheThreads[t].Result
        /\ CacheThreads[u].pc = "Remove" /\ ~CacheThreads[u].Result
        /\ \E e \in DOMAIN CacheEntries :
               /\ CacheEntries[e].RemovedBy = "Remove"
        /\ \E k \in CacheKeys :
               m_Cache[k] # NoEntry /\ CacheEntries[m_Cache[k]].RefCount > 0

(***************************************************************************)
(* C14: the request a worker dequeues has the highest priority present in  *)
(* the queue and, among the queued requests of that priority, is the one   *)
(* enqueued first (request ids are handed out in enqueue order).           *)
(***************************************************************************)
Dequeued(w) ==
    IF m_Workers[w].pc = "wait" /\ m_Workers'[w].pc = "precheck"
    THEN m_Workers'[w].Req
    ELSE NoRequest

C14_DequeueHighestTierFifo ==
    [][\A w \in WorkerIds :
          Dequeued(w) # NoRequest
              => \A o \in m_Queue :
                    /\ Requests[o].Priority <= Requests[Dequeued(w)].Priority
                    /\ Requests[o].Priority = Requests[Dequeued(w)].Priority
                           => Dequeued(w) <= o]_vars

(***************************************************************************)
(* C15: a step that takes requests out of the queue without handing them   *)
(* to a worker (CancelAll) leaves the queue empty and invokes the callback *)
(* of each request it removed with "Cancelled" and no asset; and a request *)
(* whose callback CancelAll has invoked is not held by any worker and has  *)
(* had no callback from a worker.                                          *)
(***************************************************************************)
DroppedByCancelAll(Table, r) ==
    \E i \in DOMAIN Table[r] : Table[r][i].Thread = ClientThread

C15_CancelAllDropsQueued ==
    [][/\ (m_Queue' # m_Queue /\ m_Queue' \subseteq m_Queue /\ m_Workers' = m_Workers)
            => /\ m_Queue' = {}
               /\ \A r \in m_Queue :
                      Callback'[r] = Append(Callback[r],
                                            [Asset |-> FALSE, Error |-> "Cancelled",
                                             bCancelled |-> TRUE, Thread |-> ClientThread])
       /\ \A r \in DOMAIN Callback' :
              DroppedByCancelAll(Callback', r)
                  => /\ r \notin m_Queue'
                     /\ \A w \in WorkerIds : m_Workers'[w].Req # r
                     /\ \A i \in DOMAIN Callback'[r] : Callback'[r][i].Thread = ClientThread]_vars

\* CancelAll has dropped a request while a worker is loading another one.
C15_Witness ==
    /\ \E r \in DOMAIN Callback : DroppedByCancelAll(Callback, r)
    /\ \E w \in WorkerIds : m_Workers[w].pc = "load"

(***************************************************************************)
(* C16: whenever a callback is invoked for a request whose token is        *)
(* cancelled by then (before the worker dequeued it, or while the load was *)
(* running), it gets "Cancelled" and no asset.                             *)
(***************************************************************************)
C16_CancelledNeverSucceeds ==
    [][\A r \in DOMAIN Callback :
          (Len(Callback'[r]) > Len(Callback[r]) /\ Token[r])
              => LET Result == Callback'[r][Len(Callback'[r])] IN
                 /\ Result.Error = "Cancelled"
                 /\ Result.bCancelled
                 /\ ~Result.Asset]_vars

\* A request was cancelled while its load was running: the worker went through
\* the load (the promise is fulfilled) and delivered "Cancelled"; another
\* request was cancelled before the worker's first check.
C16_Witness ==
    \E r, q \in DOMAIN Callback :
        /\ r \in Promise
        /\ Len(Callback[r]) = 1 /\ Callback[r][1].bCancelled /\ Callback[r][1].Thread # ClientThread
        /\ q \notin Promise
        /\ Len(Callback[q]) = 1 /\ Callback[q][1].bCancelled /\ Callback[q][1].Thread # ClientThread

(***************************************************************************)
(* Cancellation tokens on their own.                                       *)
(***************************************************************************)
InitToken == TokenInit /\ LoaderInit /\ CacheParked /\ PipelineInit /\ RegistryInit /\ ManagerParked /\ PackInit /\ FactoryInit /\ ReaderParked /\ RebuildInit /\ BuildParked

SpecToken == InitToken /\ [][TokenNext]_vars

(***************************************************************************)
(* C17: an IsCancelled call on a token made by CreateLinked(A, B) returns  *)
(* true when A or B is cancelled at the time of the call, whether the      *)
(* parent was cancelled before or after the token was made.                *)
(***************************************************************************)
C17_LinkedTokenFollowsParents ==
    LET L == IsCancelledCall.Token IN
    (L # 0 /\ LinkedFrom[L] # <<>>)
        => ((m_Cancelled[LinkedFrom[L][1]] \/ m_Cancelled[LinkedFrom[L][2]])
                => IsCancelledCall.Result)

(***************************************************************************)
(* C18: the mounted-pack list is ordered by descending Priority, and packs *)
(* of equal Priority stand in the order in which they were mounted.        *)
(* Readers are numbered in the order of the MountPack calls as long as no  *)
(* hot reload replaces one.                                                *)
(***************************************************************************)
C18_PacksSortedStable ==
    ~bHotReloadEnabled =>
        \A i, j \in DOMAIN Packs :
            i < j => \/ Packs[i].Priority > Packs[j].Priority
                     \/ /\ Packs[i].Priority = Packs[j].Priority
                        /\ Packs[i].Reader < Packs[j].Reader

(***************************************************************************)
(* The lookups by name on their own: packs are mounted and unmounted,      *)
(* source roots added and removed, names looked up.  The pack files stay   *)
(* as they are on disk and no load is running.                             *)
(***************************************************************************)
SpecLookup == InitManager /\ [][LookupNext]_vars

(***************************************************************************)
(* What it is for a pack to hold a name: the pack's mount point followed   *)
(* by the name an asset is stored under in the pack gives the name.        *)
(***************************************************************************)
HoldsName(Pack, Name) == \E Id \in Pack.Assets : Pack.MountPoint \o AssetName(Id) = Name

(***************************************************************************)
(* C19: the asset a lookup by name returns comes from a mounted pack that  *)
(* holds the name, and no mounted pack of a higher priority holds the      *)
(* name.                                                                   *)
(***************************************************************************)
C19_HighestPriorityPackWins ==
    (Lookup.Call = "FindAsset" /\ Lookup.Reader # NoReader)
        => \E i \in DOMAIN Packs :
              /\ Packs[i].Reader = Lookup.Reader
              /\ Lookup.Id \in Packs[i].Assets
              /\ Packs[i].MountPoint \o AssetName(Lookup.Id) = Lookup.Name
              /\ \A j \in DOMAIN Packs :
                     HoldsName(Packs[j], Lookup.Name) => Packs[j].Priority <= Packs[i].Priority

\* A lookup has returned the asset of a pack while a mounted pack of lower
\* priority holds the name too.
C19_Witness ==
    /\ Lookup.Call = "FindAsset"
    /\ \E i, j \in DOMAIN Packs :
           /\ Packs[i].Reader = Lookup.Reader
           /\ Packs[j].Priority < Packs[i].Priority
           /\ HoldsName(Packs[j], Lookup.Name)

(***************************************************************************)
(* C20: a lookup resolves in a pack or in a source root with a non-empty   *)
(* mount point only when the name starts with the mount point, and what    *)
(* it finds there is stored under the name without the mount point.        *)
(***************************************************************************)
C20_MountPointPrefix ==
    /\ (Lookup.Call = "FindAsset" /\ Lookup.Reader # NoReader)
           => \A i \in DOMAIN Packs :
                 (Packs[i].Reader = Lookup.Reader /\ Packs[i].MountPoint # <<>>)
                     => /\ Len(Lookup.Name) >= Len(Packs[i].MountPoint)
                        /\ \A k \in DOMAIN Packs[i].MountPoint :
                               Lookup.Name[k] = Packs[i].MountPoint[k]
                        /\ Lookup.Name = Packs[i].MountPoint \o AssetName(Lookup.Id)
    /\ (Lookup.Call = "Resolve" /\ Lookup.AbsolutePath # <<>>)
           => \E i \in DOMAIN m_Roots :
                 /\ m_Roots[i].RootPath = Lookup.AbsolutePath[1]
                 /\ Lookup.Name = m_Roots[i].MountPoint \o Lookup.AbsolutePath[2]
                 /\ Lookup.AbsolutePath[2] \in SourceFiles

\* A name has been found under a pack's mount point, past a pack of higher
\* priority that holds the name without the prefix, and a source root with a
\* mount point is in place.
C20_Witness ==
    /\ Lookup.Call = "FindAsset"
    /\ \E i, j \in DOMAIN Packs :
           /\ Packs[i].Reader = Lookup.Reader
           /\ Packs[i].MountPoint # <<>>
           /\ Packs[j].MountPoint = <<>>
           /\ Packs[j].Priority > Packs[i].Priority
           /\ Packs[j].Assets # {}
    /\ \E i \in DOMAIN m_Roots : m_Roots[i].MountPoint # <<>>

(***************************************************************************)
(* The factories and the loads' type checks on their own.                  *)
(***************************************************************************)
InitFactory == FactoryInit /\ LoaderInit /\ CacheParked /\ PipelineInit /\ RegistryInit /\ ManagerParked /\ PackInit /\ TokenInit /\ ReaderParked /\ RebuildInit /\ BuildParked

SpecFactory == InitFactory /\ [][FactoryNext]_vars

(***************************************************************************)
(* C21: a load by name, by id or from the runtime pipeline that has found  *)
(* its asset while no factory is registered for the runtime type asked     *)
(* for, or while the registered factory's cooked type is not the asset's,  *)
(* returns an error without invoking the factory.                          *)
(***************************************************************************)
C21_NoFactoryLoadOnTypeMismatch ==
    (/\ LoadReturn.Call # "none"
     /\ FactoriesByRuntimeType[LoadReturn.RuntimeType] # LoadReturn.CookedPayloadType)
        => LoadReturn.Error # "" /\ ~LoadReturn.Invoked

\* A load has failed on a factory of another cooked type than the asset's.
C21_Witness ==
    /\ LoadReturn.Call = "LoadAnyByName"
    /\ LoadReturn.Error = "Factory cooked type mismatch"
    /\ FactoriesByRuntimeType[LoadReturn.RuntimeType] # NoFactory

(***************************************************************************)
(* Hot reload on its own.                                                  *)
(***************************************************************************)
SpecHotReload == InitManager /\ [][HotReloadNext]_vars

Reloaded(i) == Packs[i].Reader # HotReload.Before[i].Reader

(***************************************************************************)
(* C22: after a CheckForChanges with hot reload enabled and a callback     *)
(* set, every mounted pack whose file is newer than recorded has a new     *)
(* reader and the callback was invoked with the ids of its old reader      *)
(* (if it had any); a pack whose file's time is as recorded has its old    *)
(* reader, and if that holds of all packs there was no callback.           *)
(***************************************************************************)
C22_NewerPackReloaded ==
    (HotReload.Call = "CheckForChanges" /\ bHotReloadEnabled /\ HotReloadCallback) =>
        /\ \A i \in DOMAIN Packs :
              LastWriteTime[Packs[i].Path] > HotReload.Before[i].LastModified =>
                  /\ Reloaded(i)
                  /\ HotReload.Before[i].Assets # {} =>
                        /\ HotReload.Callback
                        /\ HotReload.Before[i].Assets \subseteq HotReload.ReloadedAssets
        /\ \A i \in DOMAIN Packs :
              LastWriteTime[Packs[i].Path] = HotReload.Before[i].LastModified => ~Reloaded(i)
        /\ (\A i \in DOMAIN Packs :
              LastWriteTime[Packs[i].Path] = HotReload.Before[i].LastModified)
                  => ~HotReload.Callback

(***************************************************************************)
(* C22 as the code has it: the packs reloaded are those whose file's time  *)
(* differs from the recorded one and whose file opens; they get a new      *)
(* reader reading the file as it is now, and the time is recorded.  Every  *)
(* other pack is as it was.  The callback is invoked exactly when one is   *)
(* set and the reloaded packs' old readers held an id, with all those ids. *)
(***************************************************************************)
C22_ChangedReadablePackReloaded ==
    (HotReload.Call = "CheckForChanges" /\ bHotReloadEnabled) =>
        /\ Len(Packs) = Len(HotReload.Before)
        /\ \A i \in DOMAIN Packs :
              IF /\ LastWriteTime[Packs[i].Path] # HotReload.Before[i].LastModified
                 /\ Packs[i].Path \notin Unreadable
              THEN /\ Reloaded(i)
                   /\ Packs[i].Reader \notin {HotReload.Before[j].Reader : j \in DOMAIN Packs}
                   /\ Packs[i].Assets = PackFiles[Packs[i].Path]
                   /\ Packs[i].LastModified = LastWriteTime[Packs[i].Path]
              ELSE Packs[i] = HotReload.Before[i]
        /\ HotReload.ReloadedAssets =
              UNION {HotReload.Before[i].Assets : i \in {j \in DOMAIN Packs : Reloaded(j)}}
        /\ HotReload.Callback <=> (HotReloadCallback /\ HotReload.ReloadedAssets # {})

\* A changed pack that held an asset was reloaded and the callback invoked,
\* while another pack, changed but unreadable, kept its reader.
C22_Witness ==
    /\ HotReload.Call = "CheckForChanges"
    /\ HotReload.Callback
    /\ \E i \in DOMAIN Packs : Reloaded(i) /\ HotReload.Before[i].Assets # {}
    /\ \E i \in DOMAIN Packs :
          /\ ~Reloaded(i)
          /\ LastWriteTime[Packs[i].Path] > Packs[i].LastModified

C24_FrozenFindStable ==
    /\ bSeenFrozen => IsFrozenReturn # "false"
    /\ \A i \in TypeIds : Cardinality(FrozenFound[i]) <= 1

\* RuntimePipeline::GetDirtyCount.
GetDirtyCount == Cardinality({n \in LogicalNames : bDirty[n]})

(***************************************************************************)
(* C25: after a SaveAll that has returned success the dirty count is 0 and *)
(* every asset that was dirty when it was called is in the runtime pack    *)
(* file, as it was cooked, and the file can be read.                       *)
(***************************************************************************)
C25_SavedAssetsAreStored ==
    (SaveReturn.Call = "SaveAll" /\ SaveReturn.Error = "") =>
        /\ GetDirtyCount = 0
        /\ \A n \in SaveReturn.Dirty :
              /\ RuntimePack.Exists
              /\ RuntimePack.Readable
              /\ RuntimePack.Assets[n] = SaveReturn.Cooked[n]

(***************************************************************************)
(* The reader on a pack the writer wrote, on its own.                      *)
(***************************************************************************)
InitReader == ReaderInit /\ LoaderInit /\ CacheParked /\ PipelineInit /\ RegistryInit /\ ManagerParked /\ PackInit /\ TokenInit /\ FactoryInit /\ RebuildInit /\ BuildParked

SpecReader == InitReader /\ [][ReaderNext]_vars

\* The index entry a load of asset Id goes by, and the chunk header it reads.
EntryOf(Id) == m_Impl.IndexEntries[m_Impl.AssetIdToIndex[Id]]
BulkEntryOf(Id, BulkIndex) == m_Impl.BulkEntries[EntryOf(Id).BulkFirstIndex + BulkIndex + 1]
ChunkHeaderAt(Offset) == Disk.Cells[Offset + 1]

\* C26: LoadCookedPayload and LoadBulkChunk return bytes only when every
\* check has passed: the chunk lies within the validated file size, the
\* chunk's magic and version are valid, the chunk header agrees with the
\* index entry (or the bulk entry and the parent asset) on identity and
\* sizes, the bulk entry's SubIndex is the requested bulk index and the
\* bytes have the chunk's hash; a load that returns an error returns no bytes.
C26_BytesOnlyWhenChecked ==
    /\ ReadReturn.Call \in {"LoadCookedPayload", "LoadBulkChunk"} /\ ReadReturn.Error # ""
          => ReadReturn.Bytes = <<>>
    /\ ReadReturn.Call = "LoadCookedPayload" /\ ReadReturn.Error = "" =>
          LET Entry == EntryOf(ReadReturn.Id)
              ChunkHeader == ChunkHeaderAt(Entry.PayloadChunkOffset)
          IN  /\ Entry.PayloadChunkOffset + Entry.PayloadChunkSizeCompressed <= m_Impl.ValidatedFileSize
              /\ ChunkHeader.Magic = "CHNK" /\ ChunkHeader.Version = 1
              /\ ChunkHeader.ChunkKind = "MainPayload"
              /\ ChunkHeader.AssetId = ReadReturn.Id /\ Entry.AssetId = ReadReturn.Id
              /\ ChunkHeader.PayloadType = Entry.CookedPayloadType
              /\ ChunkHeader.SchemaVersion = Entry.CookedSchemaVersion
              /\ ChunkHeader.Compression = Entry.Compression
              /\ ChunkHeader.SizeCompressed + BlockHeaderSize = Entry.PayloadChunkSizeCompressed
              /\ ChunkHeader.SizeUncompressed = Entry.PayloadChunkSizeUncompressed
              /\ Len(ReadReturn.Bytes) = ChunkHeader.SizeUncompressed
              /\ ChunkHeader.Hash = ReadReturn.Bytes
    /\ ReadReturn.Call = "LoadBulkChunk" /\ ReadReturn.Error = "" =>
          LET Entry == EntryOf(ReadReturn.Id)
              BulkEntry == BulkEntryOf(ReadReturn.Id, ReadReturn.BulkIndex)
              ChunkHeader == ChunkHeaderAt(BulkEntry.ChunkOffset)
          IN  /\ ReadReturn.BulkIndex < Entry.BulkCount
              /\ BulkEntry.SubIndex = ReadReturn.BulkIndex
              /\ BulkEntry.ChunkOffset + BulkEntry.SizeCompressed <= m_Impl.ValidatedFileSize
              /\ ChunkHeader.Magic = "CHNK" /\ ChunkHeader.Version = 1
              /\ ChunkHeader.ChunkKind = "Bulk"
              /\ ChunkHeader.AssetId = ReadReturn.Id
              /\ ChunkHeader.Compression = BulkEntry.Compression
              /\ ChunkHeader.SizeCompressed + BlockHeaderSize = BulkEntry.SizeCompressed
              /\ ChunkHeader.SizeUncompressed = BulkEntry.SizeUncompressed
              /\ Len(ReadReturn.Bytes) = ChunkHeader.SizeUncompressed
              /\ ChunkHeader.Hash = ReadReturn.Bytes

\* The second bulk chunk of an asset is returned from a file that was changed
\* after it was written.
C26_Witness ==
    /\ Edits > 0
    /\ ReadReturn.Call = "LoadBulkChunk"
    /\ ReadReturn.Error = ""
    /\ ReadReturn.Bytes # <<>>
    /\ ReadReturn.BulkIndex > 0

\* C27: when the file is smaller than the pack header, or the header's
\* FileSize is more than the file's size, Open returns an error and the
\* reader is not open afterwards.
C27_FailedOpenLeavesClosed ==
    ReadReturn.Call = "Open" /\ Disk.Exists
    /\ (Len(Disk.Cells) < HeaderSize \/ Disk.Cells[1].FileSize > Len(Disk.Cells))
        => ReadReturn.Error # "" /\ ~m_Impl.bOpen

\* The asset authored with the id, and what reading it back is to give.
AuthoredAsset(Id) == CHOOSE i \in 1..Len(Authored) : Authored[i].Id = Id
AuthoredInfo(Asset) ==
    [Id |-> Asset.Id, AssetKind |-> Asset.AssetKind,
     CookedPayloadType |-> Asset.Cooked.PayloadType,
     SchemaVersion |-> Asset.Cooked.SchemaVersion, Name |-> Asset.Name,
     VariantKey |-> Asset.VariantKey, BulkChunkCount |-> Len(Asset.Bulk)]

\* C28: with the pack as Write wrote it and a reader opened on it, FindAsset
\* gives for every authored asset an AssetInfo equal in all fields to what
\* was authored, LoadCookedPayload gives the authored payload bytes and
\* LoadBulkChunk the authored bytes of each bulk chunk.
C28_ReadBackWhatWasWritten ==
    Edits = 0 /\ m_Impl.bOpen /\ ReadReturn.Id \in {Authored[i].Id : i \in 1..Len(Authored)} =>
        LET Asset == Authored[AuthoredAsset(ReadReturn.Id)] IN
        /\ ReadReturn.Call = "FindAsset" =>
              ReadReturn.Error = "" /\ ReadReturn.Info = AuthoredInfo(Asset)
        /\ ReadReturn.Call = "LoadCookedPayload" =>
              ReadReturn.Error = "" /\ ReadReturn.Bytes = Asset.Cooked.Bytes
        /\ ReadReturn.Call = "LoadBulkChunk" /\ ReadReturn.BulkIndex < Len(Asset.Bulk) =>
              ReadReturn.Error = "" /\ ReadReturn.Bytes = Asset.Bulk[ReadReturn.BulkIndex + 1].Bytes

(***************************************************************************)
(* The incremental cache's rebuild detection, on its own.                  *)
(***************************************************************************)
InitRebuild == RebuildInit /\ LoaderInit /\ CacheParked /\ PipelineInit /\ RegistryInit /\ ManagerParked /\ PackInit /\ TokenInit /\ FactoryInit /\ ReaderParked /\ BuildParked

SpecRebuild == InitRebuild /\ [][RebuildNext]_vars

\* A member that both functions compare differs between the entry given and the row.
ComparedMemberDiffers(Entry) ==
    \/ Entry.SourceHash # CacheRow.SourceHash
    \/ Entry.BuildOptionsHash # CacheRow.BuildOptionsHash
    \/ Entry.ImporterName # CacheRow.ImporterName
    \/ Entry.ImporterPluginVersion # CacheRow.ImporterPluginVersion
    \/ Entry.CookerName # CacheRow.CookerName
    \/ Entry.CookerPluginVersion # CacheRow.CookerPluginVersion

\* A recorded dependency's file is gone or hashes to another value than recorded.
RecordedDependencyChanged ==
    \E Path \in DepPaths :
        /\ DependencyRows[Path] # NotRecorded
        /\ DiskFiles[Path] = NoSuchFile \/ DiskFiles[Path] # DependencyRows[Path]

\* C29 as stated: NeedsRebuild(new, old) returns true whenever source hash,
\* dependencies hash, options hash, importer name or version or cooker name
\* or version differs between the two entries, and also whenever a recorded
\* dependency's current hash differs from its recorded hash or a recorded
\* dependency no longer exists.
C29_NeedsRebuildSeesDependencies ==
    RebuildReturn.Call = "NeedsRebuild"
    /\ (\/ ComparedMemberDiffers(RebuildReturn.Entry)
        \/ RebuildReturn.Entry.DependenciesHash # CacheRow.DependenciesHash
        \/ RecordedDependencyChanged)
        => RebuildReturn.Result

\* C29: NeedsRebuild(new, old) returns true exactly when old is not valid or
\* source hash, dependencies hash, options hash, importer name or version or
\* cooker name or version differs between the two entries;
\* NeedsRebuildWithDependencies returns true exactly when the stored entry
\* is not valid, or source hash, options hash, importer name or version or
\* cooker name or version differs from it, or a recorded dependency's
\* current hash differs from its recorded hash or a recorded dependency no
\* longer exists.
C29_RebuildDetection ==
    /\ RebuildReturn.Call = "NeedsRebuild" =>
          (RebuildReturn.Result <=>
              \/ ~CacheRow.bValid
              \/ ComparedMemberDiffers(RebuildReturn.Entry)
              \/ RebuildReturn.Entry.DependenciesHash # CacheRow.DependenciesHash)
    /\ RebuildReturn.Call = "NeedsRebuildWithDependencies" =>
          (RebuildReturn.Result <=>
              \/ ~CacheRow.bValid
              \/ ComparedMemberDiffers(RebuildReturn.Entry)
              \/ RecordedDependencyChanged)

\* NeedsRebuildWithDependencies has returned true for arguments equal in
\* every member to the stored entry, whose recorded dependency was deleted.
C29_Witness ==
    /\ CacheRow.bValid
    /\ RebuildReturn.Call = "NeedsRebuildWithDependencies"
    /\ RebuildReturn.Entry = CacheRow
    /\ RebuildReturn.Result
    /\ \E Path \in DepPaths :
          DependencyRows[Path] \in FileHashValues /\ DiskFiles[Path] = NoSuchFile

(***************************************************************************)
(* The one-worker loader with its three loads, on its own.                 *)
(***************************************************************************)
InitOneWorker == AsyncLoader_AsyncLoader(1) /\ CacheParked /\ PipelineInit /\ RegistryInit /\ ManagerParked /\ PackInit /\ TokenInit /\ FactoryInit /\ ReaderParked /\ RebuildInit /\ BuildParked

SpecOneWorker == InitOneWorker /\ [][OneWorkerNext]_vars

\* The requests the worker has taken from the queue, in the order it took them.
Taken ==
    IF m_Workers[1].Req = NoRequest THEN Completed ELSE Append(Completed, m_Workers[1].Req)

IsPrefix(s, t) == Len(s) <= Len(t) /\ \A i \in 1..Len(s) : s[i] = t[i]

C32_ShutdownCancelsPending ==
    [][\A w \in DOMAIN m_Workers :
          (m_Shutdown /\ m_Workers[w].pc = "wait" /\ m_Workers'[w].pc = "precheck")
              => Token[m_Workers'[w].Req]]_vars

\* AssetManager::GetDirtyAssetCount.
GetDirtyAssetCount == IF ~Pipeline THEN 0 ELSE GetDirtyCount

\* C33: a SaveRuntimeAssets called with no dirty runtime asset returns
\* success, also on a manager without a runtime pipeline, and
\* GetDirtyAssetCount() is 0 afterwards.
C33_SaveWithNothingDirtySucceeds ==
    (SaveReturn.Call \in {"SaveRuntimeAssets", "SaveAll"} /\ SaveReturn.Dirty = {}) =>
        /\ SaveReturn.Error = ""
        /\ GetDirtyAssetCount = 0

(***************************************************************************)
(* An AppendUpdate of an existing file whose final header rewrite has not  *)
(* been done: the call is at one of its appending writes or about to       *)
(* rewrite the header, or its stream has failed (the rewrite then writes   *)
(* nothing), or it has ended with an error or on a failed stream.          *)
(***************************************************************************)
HeaderNotRewritten ==
    /\ Before.Call = "AppendUpdate"
    /\ Before.Target = "Output"
    /\ \/ WriterCall.pc \in {"StringTable", "Chunks", "FinalHeader"}
       \/ WriterCall.pc = "Return" /\ WriterCall.Failed
       \/ /\ WriterCall.pc = "idle"
          /\ History # <<>>
          /\ History[Len(History)].Call = "AppendUpdate"
          /\ History[Len(History)].Result = "Error" \/ History[Len(History)].Failed

\* What a reader that opens File finds for asset Id.
Visible(File, Id) ==
    [Found |-> FindAsset(Open(File), Id),
     Payload |-> IF FindAsset(Open(File), Id)
                 THEN ReaderLoadCookedPayload(Open(File), File, Id)
                 ELSE [Ok |-> FALSE, Bytes |-> 0]]

(***************************************************************************)
(* C34: when AppendUpdate fails or is interrupted before its final header  *)
(* rewrite has been done, the file opens as the pack it was before the     *)
(* call: the reader reads the same header and index, and every asset that  *)
(* was found and loaded before is found and loads the same payload.        *)
(***************************************************************************)
C34_AppendLeavesOldPackUntilHeader ==
    HeaderNotRewritten =>
        /\ Open(OutputFile) = Open(Before.File)
        /\ \A Id \in PackAssetIds : Visible(OutputFile, Id) = Visible(Before.File, Id)

\* An AppendUpdate of a pack that held an asset has ended on a failed stream
\* with part of its data appended; the asset still loads.
C34_Witness ==
    /\ HeaderNotRewritten
    /\ WriterCall.pc = "idle"
    /\ History[Len(History)].Failed
    /\ Len(OutputFile.Cells) > Len(Before.File.Cells)
    /\ \E Id \in PackAssetIds : Visible(Before.File, Id).Payload.Ok

(***************************************************************************)
(* The batch builds of AssetPipelineEngine, on their own.                  *)
(***************************************************************************)
InitBuild == BuildInit /\ LoaderInit /\ CacheParked /\ PipelineInit /\ RegistryInit /\ ManagerParked /\ PackInit /\ TokenInit /\ FactoryInit /\ ReaderParked /\ RebuildInit

SpecBuild == InitBuild /\ [][BuildNext]_vars

\* The sources whose content differs between two states of the source tree.
ModifiedBetween(Old, New) == {u \in SourceUris : Old[u].Content # New[u].Content}

\* The sources a build processed.
ProcessedSet == {BuildReturn.Processed[i] : i \in 1..Len(BuildReturn.Processed)}

(***************************************************************************)
(* C35 as stated: a BuildChanged that follows a BuildAll and the           *)
(* modification of exactly one source file processes that source only and  *)
(* reports AssetsBuilt = 1 and AssetsSkipped = N - 1.                      *)
(***************************************************************************)
C35_IncrementalSkip ==
    (/\ BuildReturn.Call = "BuildChanged"
     /\ BuildReturn.Prev.Call = "BuildAll"
     /\ Cardinality(ModifiedBetween(BuildReturn.Prev.Files, BuildReturn.Files)) = 1)
    => /\ ProcessedSet = ModifiedBetween(BuildReturn.Prev.Files, BuildReturn.Files)
       /\ BuildReturn.AssetsBuilt = 1
       /\ BuildReturn.AssetsSkipped = NumSources - 1

(***************************************************************************)
(* C35: BuildChanged processes exactly the sources whose content hash      *)
(* differs from the hash they had when a build last cooked an asset from   *)
(* them (those never built among them), each once; AssetsSkipped counts    *)
(* the other sources and AssetsBuilt the assets cooked.  When the BuildAll *)
(* before cooked one asset from every source and the one modified source   *)
(* cooks one asset, that is AssetsBuilt = 1 and AssetsSkipped = N - 1.     *)
(***************************************************************************)
C35_BuildChangedRebuildsMismatches ==
    BuildReturn.Call = "BuildChanged" =>
        /\ ProcessedSet = {u \in SourceUris :
                              BuildReturn.Built[u] # ComputeFileHash(BuildReturn.Files[u].Content)}
        /\ Len(BuildReturn.Processed) = Cardinality(ProcessedSet)
        /\ BuildReturn.AssetsSkipped = NumSources - Len(BuildReturn.Processed)
        /\ BuildReturn.AssetsBuilt = Len(BuildReturn.Written)
        /\ (/\ BuildReturn.Prev.Call = "BuildAll"
            /\ \A u \in SourceUris : BuildReturn.Prev.Counts[u] = 1
            /\ \E u \in SourceUris :
                  /\ ModifiedBetween(BuildReturn.Prev.Files, BuildReturn.Files) = {u}
                  /\ BuildReturn.Files[u].Outcome.Cooked = 1)
           => /\ ProcessedSet = ModifiedBetween(BuildReturn.Prev.Files, BuildReturn.Files)
              /\ BuildReturn.AssetsBuilt = 1
              /\ BuildReturn.AssetsSkipped = NumSources - 1

\* A BuildAll cooked one asset from each source, one source was modified, and
\* BuildChanged has rebuilt it and skipped the others.
C35_Witness ==
    /\ BuildReturn.Call = "BuildChanged"
    /\ BuildReturn.Prev.Call = "BuildAll"
    /\ \A u \in SourceUris : BuildReturn.Prev.Counts[u] = 1
    /\ Cardinality(ModifiedBetween(BuildReturn.Prev.Files, BuildReturn.Files)) = 1
    /\ BuildReturn.AssetsBuilt = 1
    /\ BuildReturn.AssetsSkipped = NumSources - 1

(***************************************************************************)
(* C36: a batch build that has sources to process goes through all of      *)
(* them, failures or not: every source not skipped is processed, each      *)
(* source that yields no asset adds one to AssetsFailed, bSuccess is false *)
(* when an error was logged, and the writer is given the assets that       *)
(* cooked, all of them and no others, which the pack then holds when the   *)
(* write went through.                                                     *)
(***************************************************************************)
C36_BuildContinuesPastFailures ==
    BuildReturn.Write # "none" =>
        /\ Len(BuildReturn.Processed) + BuildReturn.AssetsSkipped = NumSources
        /\ BuildReturn.Call = "BuildAll" => ProcessedSet = SourceUris
        /\ BuildReturn.AssetsFailed =
              Cardinality({u \in ProcessedSet : BuildReturn.Files[u].Outcome.Cooked = 0})
        /\ BuildReturn.Errors # <<>> => ~BuildReturn.bSuccess
        /\ \A u \in ProcessedSet :
              Len(SelectSeq(BuildReturn.Written, LAMBDA a : a[1] = u)) =
                  BuildReturn.Files[u].Outcome.Cooked
        /\ \A i \in 1..Len(BuildReturn.Written) : BuildReturn.Written[i][1] \in ProcessedSet
        /\ BuildReturn.Write = "Ok" =>
              OutputPack = [Exists |-> TRUE, Readable |-> TRUE, Assets |-> BuildReturn.Written]

\* A BuildAll whose first source failed to import and whose last cooked: the
\* result is a failure and the pack holds the asset.
C36_Witness ==
    /\ BuildReturn.Call = "BuildAll"
    /\ ~BuildReturn.Files[1].Outcome.bImported
    /\ BuildReturn.Files[1].Outcome.Importer
    /\ BuildReturn.Files[NumSources].Outcome.Cooked >= 1
    /\ BuildReturn.AssetsFailed >= 1
    /\ BuildReturn.AssetsBuilt >= 1
    /\ ~BuildReturn.bSuccess
    /\ BuildReturn.Write = "Ok"
    /\ OutputPack.Assets # <<>>

\* The AssetInfo of the authored entries with the name.
AuthoredWithName(Name) ==
    {AuthoredInfo(Authored[i]) : i \in {j \in 1..Len(Authored) : Authored[j].Name = Name}}

(***************************************************************************)
(* C37: with the pack as Write wrote it mounted, when several entries were *)
(* authored with the same Name and different VariantKeys,                  *)
(* FindAssetVariants(Name) returns all of them and FindAsset(Name) returns *)
(* the one whose VariantKey is empty, whatever the order of authoring.     *)
(***************************************************************************)
C37_FindAssetReturnsNonVariant ==
    (/\ Edits = 0
     /\ m_Impl.bOpen
     /\ Cardinality(AuthoredWithName(ReadReturn.Name)) > 1)
    => /\ ReadReturn.Call = "FindAssetVariants" =>
              /\ Range(ReadReturn.Infos) = AuthoredWithName(ReadReturn.Name)
              /\ Len(ReadReturn.Infos) = Cardinality(AuthoredWithName(ReadReturn.Name))
       /\ ReadReturn.Call = "FindAssetByName" =>
              /\ ReadReturn.Error = ""
              /\ ReadReturn.Info \in AuthoredWithName(ReadReturn.Name)
              /\ (\E Info \in AuthoredWithName(ReadReturn.Name) : Info.VariantKey = "")
                     => ReadReturn.Info.VariantKey = ""
(***************************************************************************)
(* C38: a MountPack call that fails, because the path is already mounted   *)
(* or because the reader does not open the file, leaves the vector of      *)
(* mounted packs exactly as it was before the call.                        *)
(***************************************************************************)
C38_FailedMountLeavesPacks ==
    (MountReturn.Call = "MountPack" /\ MountReturn.Error # "") => Packs = MountReturn.Before

\* A mount of a file the reader rejects has just failed while another pack is mounted.
C38_Witness ==
    /\ MountReturn.Call = "MountPack"
    /\ MountReturn.Error = "Open failed"
    /\ Packs # <<>>
    /\ \A i \in DOMAIN Packs : Packs[i].Path # MountReturn.Path

(***************************************************************************)
(* C39: after any sequence of Insert and Get calls, when an Evict call     *)
(* stops at an entry because it is younger than MinAgeBeforeEviction,      *)
(* every entry nearer the front of the LRU list is younger than            *)
(* MinAgeBeforeEviction too.  Stated of the states between calls, in each  *)
(* of which Evict can be called: of the entry its walk would stop at.      *)
(***************************************************************************)
SpecLru == InitCache /\ [][LruNext]_vars

C39_YoungStopMeansFrontYoung ==
    ((\A t \in CacheThreadIds : CacheThreads[t].pc = "idle")
        /\ ~(m_MemoryUsage < EvictionThresholdBytes))
        => LET p == EvictBreak(Len(m_LruList), m_MemoryUsage) IN
           p # 0 => \A i \in 1..(p - 1) :
                       CacheNow - CacheEntries[m_LruList[i]].LastAccess < MinAgeBeforeEviction

(***************************************************************************)
(* C40: GetMemoryUsage(), the value of m_MemoryUsage, is always the sum of *)
(* SizeBytes over the entries in the cache, under any interleaving of      *)
(* Insert, Get, Remove, ForceRemove, ClearUnreferenced, Evict and          *)
(* ClearAll.  ("Always" is between the critical sections of m_CacheMutex:  *)
(* the map can be looked at only under the lock.)                          *)
(***************************************************************************)
SpecCacheAll == InitCache /\ [][CacheNextAll]_vars

GetMemoryUsage == m_MemoryUsage

C40_MemoryUsageIsSumOfSizes ==
    GetMemoryUsage = SumSizeBytes({m_Cache[k] : k \in CacheKeys} \ {NoEntry})

\* A referenced entry has been taken out by ForceRemove and another entry is
\* cached.
C40_Witness ==
    /\ \E e \in DOMAIN CacheEntries :
          CacheEntries[e].RemovedBy = "ForceRemove" /\ CacheEntries[e].RefCount > 0
    /\ \E k \in CacheKeys : m_Cache[k] # NoEntry
    /\ GetMemoryUsage > 0

=============================================================================
